---- MODULE Spec2Model ----
(***************************************************************************)
(* The patch-application engine of utils/code.py: extract_diffs and        *)
(* apply_diff, with the helpers they call.                                 *)
(*                                                                         *)
(* A text (a Python str) is a sequence of one-character strings; a list of *)
(* lines is a sequence of texts.  Positions are 1-based, so Python's       *)
(* index i is position i + 1 here; a position 0 means "not found".         *)
(***************************************************************************)
EXTENDS Integers, Sequences, FiniteSets, TLC

\* ------------------------------------------------------------------------
\* Literals of the source
\* ------------------------------------------------------------------------

ANCHOR_START_PREFIX == <<"#", "#", "#", " ", ">", ">", ">", " ", "D", "E", "E", "P", "E", "V", "O", "L", "V", "E", "-", "B", "L", "O", "C", "K", "-", "S", "T", "A", "R", "T", ":">>

ANCHOR_END_PREFIX == <<"#", "#", "#", " ", "<", "<", "<", " ", "D", "E", "E", "P", "E", "V", "O", "L", "V", "E", "-", "B", "L", "O", "C", "K", "-", "E", "N", "D">>

\* the three runs of the pattern of extract_diffs and of the safety net
LT7 == <<"<", "<", "<", "<", "<", "<", "<">>

EQ7 == <<"=", "=", "=", "=", "=", "=", "=">>

GT7 == <<">", ">", ">", ">", ">", ">", ">">>

SEARCH_WORD == <<"S", "E", "A", "R", "C", "H">>

REPLACE_WORD == <<"R", "E", "P", "L", "A", "C", "E">>

\* TLA+ strings cannot hold a backquote: the character ` is written "BQ"
FENCE == <<"BQ", "BQ", "BQ">>

NL == "\n"

\* what str.strip()/rstrip() remove and what \s matches, among the characters used
Whitespace == {" ", "\t", "\n", "\r"}

\* [\w-] of the code-fence pattern
FenceTagChars ==
    {"a", "b", "c", "d", "e", "f", "g", "h", "i", "j", "k", "l", "m", "n", "o",
     "p", "q", "r", "s", "t", "u", "v", "w", "x", "y", "z",
     "A", "B", "C", "D", "E", "F", "G", "H", "I", "J", "K", "L", "M", "N", "O",
     "P", "Q", "R", "S", "T", "U", "V", "W", "X", "Y", "Z",
     "0", "1", "2", "3", "4", "5", "6", "7", "8", "9", "_", "-"}

\* ------------------------------------------------------------------------
\* str operations
\* ------------------------------------------------------------------------

MinOf(S) == CHOOSE x \in S : \A y \in S : x <= y

MaxOf(S) == CHOOSE x \in S : \A y \in S : x >= y

\* t[p:].startswith(lit)
StartsAt(t, p, lit) ==
    /\ p >= 1
    /\ p + Len(lit) - 1 <= Len(t)
    /\ \A k \in 1..Len(lit) : t[p + k - 1] = lit[k]

\* t.find(lit, p - 1) + 1: the first position >= p where lit occurs, or 0
Find(t, lit, p) ==
    LET hits == {q \in p..(Len(t) - Len(lit) + 1) : StartsAt(t, q, lit)}
    IN  IF hits = {} THEN 0 ELSE MinOf(hits)

\* lit in t
Contains(t, lit) == Find(t, lit, 1) # 0

\* the first position >= p of a character that is not whitespace, or Len(t) + 1
SkipWs(t, p) ==
    LET rest == {q \in p..Len(t) : t[q] \notin Whitespace}
    IN  IF rest = {} THEN Len(t) + 1 ELSE MinOf(rest)

\* the last position in lo..hi holding a newline, or 0
LastNl(t, lo, hi) ==
    LET nls == {q \in lo..hi : t[q] = NL}
    IN  IF nls = {} THEN 0 ELSE MaxOf(nls)

\* str.rstrip()
rstrip(line) ==
    LET keep == {q \in 1..Len(line) : line[q] \notin Whitespace}
    IN  IF keep = {} THEN <<>> ELSE SubSeq(line, 1, MaxOf(keep))

\* str.lstrip()
lstrip(line) == SubSeq(line, SkipWs(line, 1), Len(line))

\* str.strip()
strip(line) == lstrip(rstrip(line))

\* str.rstrip("\n")
rstrip_nl(text) ==
    LET keep == {q \in 1..Len(text) : text[q] # NL}
    IN  IF keep = {} THEN <<>> ELSE SubSeq(text, 1, MaxOf(keep))

\* the positions 1..n as a sequence
Positions(n) == [i \in 1..n |-> i]

\* text.split("\n"): never empty, a text without newline is one line
SplitLines(t) ==
    LET nls == SelectSeq(Positions(Len(t)), LAMBDA q : t[q] = NL)
    IN  [k \in 1..(Len(nls) + 1) |->
            SubSeq(t, IF k = 1 THEN 1 ELSE nls[k - 1] + 1,
                      IF k > Len(nls) THEN Len(t) ELSE nls[k] - 1)]

RECURSIVE JoinLines(_)
\* "\n".join(lines)
JoinLines(lines) ==
    IF Len(lines) = 0 THEN <<>>
    ELSE IF Len(lines) = 1 THEN lines[1]
    ELSE lines[1] \o <<NL>> \o JoinLines(Tail(lines))

\* a splice that deletes the region when the replace lines are the one empty line
SpliceDropsEmpty(lines, from, to, repl) ==
    SubSeq(lines, 1, from - 1) \o (IF repl = << <<>> >> THEN <<>> ELSE repl)
        \o SubSeq(lines, to + 1, Len(lines))

\* lines[:s] + repl + lines[e:] with Python indices s = from - 1, e = to:
\* positions from..to are replaced (from = to + 1 inserts)
Splice(lines, from, to, repl) ==
    SubSeq(lines, 1, from - 1) \o repl \o SubSeq(lines, to + 1, Len(lines))

\* text.replace("\r\n", "\n").replace("\r", "\n"): the newline of a "\r\n" is
\* dropped, then every "\r" becomes a newline
normalize_newlines(text) ==
    LET kept == SelectSeq(Positions(Len(text)),
                          LAMBDA q : ~(text[q] = NL /\ q > 1 /\ text[q - 1] = "\r"))
    IN  [i \in 1..Len(kept) |-> IF text[kept[i]] = "\r" THEN NL ELSE text[kept[i]]]

\* [ln.rstrip() for ln in lines]
rstrip_lines(lines) == [i \in 1..Len(lines) |-> rstrip(lines[i])]

\* ------------------------------------------------------------------------
\* extract_diffs
\* ------------------------------------------------------------------------

\* a line the opening code-fence pattern removes (the line is followed by a newline)
IsFenceOpenLine(l) ==
    /\ StartsAt(l, 1, FENCE)
    /\ \A k \in 4..Len(l) : l[k] \in FenceTagChars

\* re.sub of the opening fence (three backquotes, [\w-]*, newline) at a line start
StripFenceOpen(text) ==
    LET lines == SplitLines(text)
        kept  == SelectSeq(Positions(Len(lines)),
                           LAMBDA i : ~(i < Len(lines) /\ IsFenceOpenLine(lines[i])))
    IN  JoinLines([k \in 1..Len(kept) |-> lines[kept[k]]])

\* newline, three backquotes, \s*, $ matched at p: the position after the match,
\* or 0.  \s* is greedy and $ holds at the end of the text and before a newline
FenceCloseEnd(t, p) ==
    IF ~StartsAt(t, p, <<NL>> \o FENCE) THEN 0
    ELSE LET wend == SkipWs(t, p + 4)
         IN  IF wend > Len(t) THEN Len(t) + 1 ELSE LastNl(t, p + 4, wend - 1)

RECURSIVE CloseFrom(_, _)
CloseFrom(t, p) ==
    LET hits == {q \in p..Len(t) : FenceCloseEnd(t, q) # 0}
    IN  IF hits = {} THEN SubSeq(t, p, Len(t))
        ELSE LET q == MinOf(hits)
             IN  SubSeq(t, p, q - 1) \o <<NL>> \o CloseFrom(t, FenceCloseEnd(t, q))

\* re.sub of newline, three backquotes, \s*, $ by one newline
StripFenceClose(text) == CloseFrom(text, 1)

\* <<<<<<<\s*SEARCH\s*\n matched at s: the position after it, or 0
StartMarkerEnd(t, s) ==
    IF ~StartsAt(t, s, LT7) THEN 0
    ELSE LET q == SkipWs(t, s + 7)
         IN  IF ~StartsAt(t, q, SEARCH_WORD) THEN 0
             ELSE LET nl == LastNl(t, q + 6, SkipWs(t, q + 6) - 1)
                  IN  IF nl = 0 THEN 0 ELSE nl + 1

\* \n?=======\s*\n matched at p: the position after it, or 0
SeparatorEnd(t, p) ==
    LET p1 == IF p <= Len(t) /\ t[p] = NL THEN p + 1 ELSE p
    IN  IF ~StartsAt(t, p1, EQ7) THEN 0
        ELSE LET nl == LastNl(t, p1 + 7, SkipWs(t, p1 + 7) - 1)
             IN  IF nl = 0 THEN 0 ELSE nl + 1

\* \n?>>>>>>>\s*REPLACE matched at p: the position after it, or 0
EndMarkerEnd(t, p) ==
    LET p1 == IF p <= Len(t) /\ t[p] = NL THEN p + 1 ELSE p
    IN  IF ~StartsAt(t, p1, GT7) THEN 0
        ELSE LET q == SkipWs(t, p1 + 7)
             IN  IF ~StartsAt(t, q, REPLACE_WORD) THEN 0 ELSE q + 7

FirstStartMarker(t, from) ==
    LET hits == {s \in from..Len(t) : StartMarkerEnd(t, s) # 0}
    IN  IF hits = {} THEN 0 ELSE MinOf(hits)

FirstSeparator(t, from) ==
    LET hits == {p \in from..Len(t) : SeparatorEnd(t, p) # 0}
    IN  IF hits = {} THEN 0 ELSE MinOf(hits)

FirstEndMarker(t, from) ==
    LET hits == {p \in from..Len(t) : EndMarkerEnd(t, p) # 0}
    IN  IF hits = {} THEN 0 ELSE MinOf(hits)

RECURSIVE FindAll(_, _)
\* pattern.findall(text) from position `from`, each pair already rstrip("\n")ed:
\* both bodies are non-greedy, so a block ends at the first separator after its
\* start marker and at the first end marker after that separator
FindAll(t, from) ==
    LET s == FirstStartMarker(t, from)
    IN  IF s = 0 THEN <<>>
        ELSE LET a == StartMarkerEnd(t, s)
                 p == FirstSeparator(t, a)
             IN  IF p = 0 THEN <<>>
                 ELSE LET b  == SeparatorEnd(t, p)
                          p2 == FirstEndMarker(t, b)
                      IN  IF p2 = 0 THEN <<>>
                          ELSE << <<rstrip_nl(SubSeq(t, a, p - 1)),
                                    rstrip_nl(SubSeq(t, b, p2 - 1))>> >>
                               \o FindAll(t, EndMarkerEnd(t, p2))

\* an extraction that lists the blocks last first
extract_diffs_reversed(diff_text) ==
    LET blocks == FindAll(StripFenceClose(StripFenceOpen(normalize_newlines(diff_text))), 1)
    IN  [k \in 1..Len(blocks) |-> blocks[Len(blocks) + 1 - k]]

\* extract_diffs(diff_text): the list of (search, replace) texts
extract_diffs(diff_text) ==
    FindAll(StripFenceClose(StripFenceOpen(normalize_newlines(diff_text))), 1)

\* ------------------------------------------------------------------------
\* rapidfuzz.distance.Levenshtein
\* ------------------------------------------------------------------------

Min2(x, y) == IF x <= y THEN x ELSE y

RECURSIVE LevCells(_, _, _, _, _)
\* cells of the row of character ch of the edit-distance table: acc holds the cells
\* 0..Len(acc)-1, prev is the row above; the cells up to `upto` are added
LevCells(ch, prev, b, acc, upto) ==
    IF Len(acc) >= upto THEN acc
    ELSE LET j    == Len(acc)
             cost == IF b[j] = ch THEN 0 ELSE 1
         IN  LevCells(ch, prev, b,
                      Append(acc, Min2(Min2(prev[j + 1] + 1, acc[j] + 1), prev[j] + cost)),
                      upto)

RECURSIVE LevRow(_, _, _, _)
\* one row of the table, ten cells at a time
LevRow(ch, prev, b, acc) ==
    IF Len(acc) > Len(b) THEN acc
    ELSE LET part == LevCells(ch, prev, b, acc, Min2(Len(acc) + 10, Len(b) + 1))
         IN  IF Len(part) > Len(acc) THEN LevRow(ch, prev, b, part) ELSE part

RECURSIVE LevRowsTo(_, _, _, _, _)
\* the row of a[last], from prev: the row above a[i]
LevRowsTo(a, b, i, last, prev) ==
    IF i > last THEN prev
    ELSE LET row == LevRow(a[i], prev, b, <<i>>)
         IN  IF Len(row) = Len(b) + 1 THEN LevRowsTo(a, b, i + 1, last, row) ELSE <<>>

RECURSIVE LevRows(_, _, _, _)
\* the last cell of the last row, ten rows at a time
LevRows(a, b, i, prev) ==
    IF i > Len(a) THEN prev[Len(b) + 1]
    ELSE LET last == Min2(i + 9, Len(a))
             row  == LevRowsTo(a, b, i, last, prev)
         IN  IF Len(row) = Len(b) + 1 THEN LevRows(a, b, last + 1, row) ELSE -1

\* Levenshtein.distance(a, b) with unit weights
LevenshteinDistance(a, b) ==
    IF Len(a) >= Len(b)
    THEN LevRows(a, b, 1, [j \in 1..(Len(b) + 1) |-> j - 1])
    ELSE LevRows(b, a, 1, [j \in 1..(Len(a) + 1) |-> j - 1])

\* ------------------------------------------------------------------------
\* Helpers of apply_diff
\* ------------------------------------------------------------------------

\* Python's None: no text and no pair of positions equals it
None == <<"None">>

\* the flags of the loop of _strip_inline_comment, and cut: the position of the first
\* "#" outside quotes once the loop has returned there, else 0
CommentStart == [in_single |-> FALSE, in_double |-> FALSE, escaped |-> FALSE, cut |-> 0]

\* a loop body that knows no string literals: it returns at the first "#" not escaped
CommentCharNoLiterals(state, idx, ch) ==
    IF state.cut # 0 THEN state
    ELSE IF state.escaped THEN [state EXCEPT !.escaped = FALSE]
    ELSE IF ch = "\\" THEN [state EXCEPT !.escaped = TRUE]
    ELSE IF ch = "#" THEN [state EXCEPT !.cut = idx]
    ELSE state

\* one pass of the loop body, lines 278-291, for the character ch at idx
CommentChar(state, idx, ch) ==
    IF state.cut # 0 THEN state
    ELSE IF state.escaped THEN [state EXCEPT !.escaped = FALSE]
    ELSE IF ch = "\\" THEN [state EXCEPT !.escaped = TRUE]
    ELSE IF ch = "'" /\ ~state.in_double
         THEN [state EXCEPT !.in_single = ~state.in_single]
    ELSE IF ch = "\"" /\ ~state.in_single
         THEN [state EXCEPT !.in_double = ~state.in_double]
    ELSE IF ch = "#" /\ ~state.in_single /\ ~state.in_double
         THEN [state EXCEPT !.cut = idx]
    ELSE state

RECURSIVE CommentScan(_, _, _, _)
\* the loop of line 277 over the characters lo..hi, entered in `state`: the first half
\* of the range, then the second half
CommentScan(line, lo, hi, state) ==
    IF lo = hi THEN CommentChar(state, lo, line[lo])
    ELSE LET mid   == (lo + hi) \div 2
             first == CommentScan(line, lo, mid, state)
         IN  IF first.cut # 0 THEN first ELSE CommentScan(line, mid + 1, hi, first)

strip_inline_comment(line) ==
    LET cut == IF line = <<>> THEN 0 ELSE CommentScan(line, 1, Len(line), CommentStart).cut
    IN  IF cut = 0 THEN line ELSE SubSeq(line, 1, cut - 1)

\* [_strip_inline_comment(ln).rstrip() for ln in lines]
normalize_no_comment(lines) ==
    [i \in 1..Len(lines) |-> rstrip(strip_inline_comment(lines[i]))]

\* line.split(ANCHOR_START_PREFIX, 1)[1].strip(), for a line that holds the prefix
LabelOf(line) ==
    strip(SubSeq(line, Find(line, ANCHOR_START_PREFIX, 1) + Len(ANCHOR_START_PREFIX),
                 Len(line)))

\* _extract_anchor_label(lines): the label of the first line holding the start prefix
extract_anchor_label(lines) ==
    LET hits == {i \in 1..Len(lines) : Contains(lines[i], ANCHOR_START_PREFIX)}
    IN  IF hits = {} THEN None ELSE LabelOf(lines[MinOf(hits)])

\* the None of an Optional[Tuple[int, int]]: no region starts at position 0
NoRegion == <<0, 0>>

\* a region search that runs to the last end sentinel instead of the first
find_anchor_region_last_end(lines, label) ==
    LET starts == {i \in 1..Len(lines) :
                      /\ Contains(lines[i], ANCHOR_START_PREFIX)
                      /\ LabelOf(lines[i]) = label}
    IN  IF starts = {} THEN NoRegion
        ELSE LET start_idx == MinOf(starts)
                 ends == {j \in (start_idx + 1)..Len(lines) :
                             Contains(lines[j], ANCHOR_END_PREFIX)}
             IN  IF ends = {} THEN NoRegion ELSE <<start_idx, MaxOf(ends)>>

\* _find_anchor_region(lines, label): <<start, end>>, both inclusive, or NoRegion
find_anchor_region(lines, label) ==
    LET starts == {i \in 1..Len(lines) :
                      /\ Contains(lines[i], ANCHOR_START_PREFIX)
                      /\ LabelOf(lines[i]) = label}
    IN  IF starts = {} THEN NoRegion
        ELSE LET start_idx == MinOf(starts)
                 ends == {j \in (start_idx + 1)..Len(lines) :
                             Contains(lines[j], ANCHOR_END_PREFIX)}
             IN  IF ends = {} THEN NoRegion ELSE <<start_idx, MinOf(ends)>>

\* text.replace(old, new, 1) for an old that occurs in text
ReplaceFirst(text, old, new) ==
    LET p == Find(text, old, 1)
    IN  SubSeq(text, 1, p - 1) \o new \o SubSeq(text, p + Len(old), Len(text))

\* ------------------------------------------------------------------------
\* The strategies of apply_diff, each on the current buffer
\* ------------------------------------------------------------------------

\* lines 337-340: the region the anchor sentinels bound, or NoRegion
AnchorRegion(result_lines, search_lines) ==
    LET anchor_label == extract_anchor_label(search_lines)
    IN  IF anchor_label # None /\ anchor_label # <<>>
        THEN find_anchor_region(result_lines, anchor_label)
        ELSE NoRegion

\* a window scan that takes the last matching window instead of the first
WindowMatchLast(result_lines, search_lines) ==
    LET n    == Len(search_lines)
        hits == {i \in 1..(Len(result_lines) - n + 1) :
                    rstrip_lines(SubSeq(result_lines, i, i + n - 1))
                        = rstrip_lines(search_lines)}
    IN  IF hits = {} THEN 0 ELSE MaxOf(hits)

\* a window scan that compares the lines as they are, without rstrip
WindowMatchNoTrim(result_lines, search_lines) ==
    LET n    == Len(search_lines)
        hits == {i \in 1..(Len(result_lines) - n + 1) :
                    SubSeq(result_lines, i, i + n - 1) = search_lines}
    IN  IF hits = {} THEN 0 ELSE MinOf(hits)

\* lines 345-347: the first window equal to the search lines after rstrip, or 0
WindowMatch(result_lines, search_lines) ==
    LET n    == Len(search_lines)
        hits == {i \in 1..(Len(result_lines) - n + 1) :
                    rstrip_lines(SubSeq(result_lines, i, i + n - 1))
                        = rstrip_lines(search_lines)}
    IN  IF hits = {} THEN 0 ELSE MinOf(hits)

\* a comment scan that keeps the comments and only removes trailing whitespace
CommentMatchKeepsComments(result_lines, search_lines) ==
    LET n    == Len(search_lines)
        hits == {i \in 1..(Len(result_lines) - n + 1) :
                    rstrip_lines(SubSeq(result_lines, i, i + n - 1))
                        = rstrip_lines(search_lines)}
    IN  IF hits = {} THEN 0 ELSE MinOf(hits)

\* lines 353-357: the first window equal after stripping comments and rstrip, or 0
CommentMatch(result_lines, search_lines) ==
    LET n    == Len(search_lines)
        hits == {i \in 1..(Len(result_lines) - n + 1) :
                    normalize_no_comment(SubSeq(result_lines, i, i + n - 1))
                        = normalize_no_comment(search_lines)}
    IN  IF hits = {} THEN 0 ELSE MinOf(hits)

\* lines 362-369, fallback 1: the buffer after replacing the first occurrence of the
\* joined search text in the joined buffer, when it occurs there
FlatReplace(result_lines, search_lines, replace_lines) ==
    LET original_text     == JoinLines(result_lines)
        search_text_exact == JoinLines(search_lines)
        replace_text      == JoinLines(replace_lines)
    IN  IF search_text_exact # <<>> /\ Contains(original_text, search_text_exact)
        THEN [matched |-> TRUE,
              lines   |-> SplitLines(ReplaceFirst(original_text, search_text_exact,
                                                  replace_text))]
        ELSE [matched |-> FALSE, lines |-> result_lines]

\* lines 371-382, fallback 2: the same on the right-stripped buffer, search and
\* replace lines; the new buffer is the split of the right-stripped text
TrimmedReplace(result_lines, search_lines, replace_lines) ==
    LET normalized_original == JoinLines(rstrip_lines(result_lines))
        normalized_search   == JoinLines(rstrip_lines(search_lines))
        normalized_replace  == JoinLines(rstrip_lines(replace_lines))
    IN  IF normalized_search # <<>> /\ Contains(normalized_original, normalized_search)
        THEN [matched |-> TRUE,
              lines   |-> SplitLines(ReplaceFirst(normalized_original, normalized_search,
                                                  normalized_replace))]
        ELSE [matched |-> FALSE, lines |-> result_lines]

RECURSIVE FuzzyWindows(_, _, _)
\* the windows of lines 391-393 in the order the two loops visit them, each <<i, window_len>>
FuzzyWindows(result_lines, window_len, max_len) ==
    IF window_len > max_len THEN <<>>
    ELSE [i \in 1..(Len(result_lines) - window_len + 1) |-> <<i, window_len>>]
         \o FuzzyWindows(result_lines, window_len + 1, max_len)

\* Levenshtein.normalized_distance(a, b) as the fraction <<distance, longer length>>;
\* two empty texts are at distance 0
NormalizedDistance(a, b) ==
    IF Len(a) = 0 /\ Len(b) = 0 THEN <<0, 1>>
    ELSE <<LevenshteinDistance(a, b), IF Len(a) >= Len(b) THEN Len(a) ELSE Len(b)>>

\* a comparison that lets a later window of equal score take the place of the best
ScoreAboveOrEqual(x, y) == x[1] * y[2] <= y[1] * x[2]

\* 1.0 - x > 1.0 - y for the fractions x and y
ScoreAbove(x, y) == x[1] * y[2] < y[1] * x[2]

FUZZY_PERCENT == 80

\* an acceptance that wants the score strictly above the threshold
ScoreAcceptedStrict(x) == 100 * (x[2] - x[1]) > FUZZY_PERCENT * x[2]

\* 1.0 - x >= 0.80 for the fraction x
ScoreAccepted(x) == 100 * (x[2] - x[1]) >= FUZZY_PERCENT * x[2]

RECURSIVE FuzzyScan(_, _, _, _, _)
\* lines 391-399: best is <<window, fraction>> of the best window so far; a later
\* window replaces it only when its score is strictly above
FuzzyScan(result_lines, search_text_exact, windows, k, best) ==
    IF k > Len(windows) THEN best
    ELSE LET w           == windows[k]
             window_text == JoinLines(SubSeq(result_lines, w[1], w[1] + w[2] - 1))
             x           == NormalizedDistance(search_text_exact, window_text)
         IN  IF best[1] = NoRegion \/ ScoreAbove(x, best[2])
             THEN FuzzyScan(result_lines, search_text_exact, windows, k + 1, <<w, x>>)
             ELSE FuzzyScan(result_lines, search_text_exact, windows, k + 1, best)

\* lines 386-400: <<i, window_len>> of the best window when its score is accepted,
\* or NoRegion
FuzzyMatch(result_lines, search_lines) ==
    LET n       == Len(search_lines)
        min_len == IF n - 2 >= 1 THEN n - 2 ELSE 1
        max_len == IF Len(result_lines) <= n + 2 THEN Len(result_lines) ELSE n + 2
        best    == FuzzyScan(result_lines, JoinLines(search_lines),
                             FuzzyWindows(result_lines, min_len, max_len), 1,
                             <<NoRegion, <<1, 1>> >>)
    IN  IF best[1] # NoRegion /\ ScoreAccepted(best[2]) THEN best[1] ELSE NoRegion

DEF_KEYWORD == <<"d", "e", "f", " ">>

CLASS_KEYWORD == <<"c", "l", "a", "s", "s", " ">>

\* len(line) - len(line.lstrip())
Indent(line) == Len(line) - Len(lstrip(line))

RECURSIVE SignatureEnd(_, _, _)
\* the while loop of lines 418-427: the first position >= e the region does not take
SignatureEnd(result_lines, e, indent) ==
    IF e > Len(result_lines) THEN e
    ELSE IF strip(result_lines[e]) = <<>> THEN SignatureEnd(result_lines, e + 1, indent)
    ELSE IF /\ Indent(result_lines[e]) <= indent
            /\ ~StartsAt(strip(result_lines[e]), 1, <<"@">>)
         THEN e
    ELSE SignatureEnd(result_lines, e + 1, indent)

\* lines 406-427: <<sig_idx, last position of the body>>, or NoRegion
SignatureRegion(result_lines, search_lines) ==
    LET nonblank  == {i \in 1..Len(search_lines) : strip(search_lines[i]) # <<>>}
        stripped  == IF nonblank = {} THEN <<>> ELSE strip(search_lines[MinOf(nonblank)])
        sigs      == {i \in 1..Len(result_lines) : strip(result_lines[i]) = stripped}
    IN  IF /\ StartsAt(stripped, 1, DEF_KEYWORD) \/ StartsAt(stripped, 1, CLASS_KEYWORD)
           /\ sigs # {}
        THEN LET sig_idx == MinOf(sigs)
             IN  <<sig_idx,
                   SignatureEnd(result_lines, sig_idx + 1, Indent(result_lines[sig_idx])) - 1>>
        ELSE NoRegion

\* lines 432-435: the stripped replace text is not empty and occurs in the buffer
ReplacePresent(result_lines, replace_lines) ==
    LET replace_text == strip(JoinLines(rstrip_lines(replace_lines)))
    IN  /\ replace_text # <<>>
        /\ Contains(JoinLines(rstrip_lines(result_lines)), replace_text)

\* line 449: any of the three seven-character runs occurs in the text
HasConflictMarker(result_code) ==
    \/ Contains(result_code, LT7)
    \/ Contains(result_code, EQ7)
    \/ Contains(result_code, GT7)

\* a return without the safety net
SafetyNetOff(result_code, original_code) == result_code

\* lines 448-452: the text apply_diff returns
SafetyNet(result_code, original_code) ==
    IF HasConflictMarker(result_code) THEN original_code ELSE result_code

\* ------------------------------------------------------------------------
\* One block of the loop of apply_diff, strategy by strategy.  Each step gives the
\* buffer and the flag `matched` after it, and `hit`: whether it replaced the buffer
\* ------------------------------------------------------------------------

Unchanged(result_lines, matched) ==
    [lines |-> result_lines, matched |-> matched, hit |-> FALSE]

Replaced(lines) == [lines |-> lines, matched |-> TRUE, hit |-> TRUE]

\* lines 336-343
AnchorStep(result_lines, matched, search_lines, replace_lines) ==
    LET anchor_region == AnchorRegion(result_lines, search_lines)
    IN  IF anchor_region # NoRegion
        THEN Replaced(Splice(result_lines, anchor_region[1], anchor_region[2],
                             replace_lines))
        ELSE Unchanged(result_lines, matched)

\* lines 345-351: the loop runs whatever `matched` is
WindowStep(result_lines, matched, search_lines, replace_lines) ==
    LET i == WindowMatch(result_lines, search_lines)
    IN  IF i # 0
        THEN Replaced(Splice(result_lines, i, i + Len(search_lines) - 1, replace_lines))
        ELSE Unchanged(result_lines, matched)

\* lines 352-360
CommentStep(result_lines, matched, search_lines, replace_lines) ==
    LET i == CommentMatch(result_lines, search_lines)
    IN  IF ~matched /\ Len(search_lines) > 0 /\ i # 0
        THEN Replaced(Splice(result_lines, i, i + Len(search_lines) - 1, replace_lines))
        ELSE Unchanged(result_lines, matched)

\* lines 361-382
FallbackStep(result_lines, matched, search_lines, replace_lines) ==
    LET flat    == FlatReplace(result_lines, search_lines, replace_lines)
        trimmed == TrimmedReplace(result_lines, search_lines, replace_lines)
    IN  IF matched THEN Unchanged(result_lines, matched)
        ELSE IF flat.matched THEN Replaced(flat.lines)
        ELSE IF trimmed.matched THEN Replaced(trimmed.lines)
        ELSE Unchanged(result_lines, matched)

\* lines 384-403
FuzzyStep(result_lines, matched, search_lines, replace_lines) ==
    IF matched \/ Len(search_lines) = 0 THEN Unchanged(result_lines, matched)
    ELSE LET best_range == FuzzyMatch(result_lines, search_lines)
         IN  IF best_range # NoRegion
             THEN Replaced(Splice(result_lines, best_range[1],
                                  best_range[1] + best_range[2] - 1, replace_lines))
             ELSE Unchanged(result_lines, matched)

\* lines 405-429
SignatureStep(result_lines, matched, search_lines, replace_lines) ==
    IF matched \/ Len(search_lines) = 0 THEN Unchanged(result_lines, matched)
    ELSE LET region == SignatureRegion(result_lines, search_lines)
         IN  IF region # NoRegion
             THEN Replaced(Splice(result_lines, region[1], region[2], replace_lines))
             ELSE Unchanged(result_lines, matched)

\* lines 431-436: the buffer stays, the block counts as matched when its replace
\* text is already there
PresentStep(result_lines, matched, search_lines, replace_lines) ==
    [lines   |-> result_lines,
     matched |-> matched \/ ReplacePresent(result_lines, replace_lines),
     hit     |-> FALSE]

\* lines 334-429 for one block: the buffer and the flag after the six strategies,
\* each working on the state {lines, matched} the one before it left. The code is
\* sequential, so each of the sets holds exactly one state.
StrategiesOn(result_lines, search_lines, replace_lines) ==
    CHOOSE signed \in
        {SignatureStep(fuzzied.lines, fuzzied.matched, search_lines, replace_lines) :
         fuzzied \in
        {FuzzyStep(fallen.lines, fallen.matched, search_lines, replace_lines) :
         fallen \in
        {FallbackStep(commented.lines, commented.matched, search_lines, replace_lines) :
         commented \in
        {CommentStep(windowed.lines, windowed.matched, search_lines, replace_lines) :
         windowed \in
        {WindowStep(anchored.lines, anchored.matched, search_lines, replace_lines) :
         anchored \in
        {AnchorStep(result_lines, FALSE, search_lines, replace_lines)}}}}}} : TRUE

\* lines 326-436 for one block: the buffer after it
ApplyBlock(result_lines, search_lines, replace_lines) ==
    StrategiesOn(result_lines, search_lines, replace_lines).lines

\* lines 431-438 for one block: it ends with matched still False and is logged
BlockMissed(result_lines, search_lines, replace_lines) ==
    ~PresentStep(StrategiesOn(result_lines, search_lines, replace_lines).lines,
                 StrategiesOn(result_lines, search_lines, replace_lines).matched,
                 search_lines, replace_lines).matched

RECURSIVE ApplyBlocks(_, _, _)
ApplyBlocks(result_lines, diff_blocks, k) ==
    IF k > Len(diff_blocks) THEN result_lines
    ELSE ApplyBlocks(ApplyBlock(result_lines, SplitLines(diff_blocks[k][1]),
                                SplitLines(diff_blocks[k][2])),
                     diff_blocks, k + 1)

\* apply_diff(original_code, diff_text) as a function of its arguments
apply_diff(original_code_arg, diff_text_arg) ==
    LET original_code == normalize_newlines(original_code_arg)
        diff_blocks   == extract_diffs(normalize_newlines(diff_text_arg))
    IN  SafetyNet(JoinLines(ApplyBlocks(SplitLines(original_code), diff_blocks, 1)),
                  original_code)

\* ------------------------------------------------------------------------
\* The arguments a caller passes: texts and diffs built from small pools of lines
\* ------------------------------------------------------------------------

\* the longest original text of the plain and multi-block inputs, in lines
MaxLines == 3

\* the most blocks a diff of the multi-block inputs holds
MaxBlocks == 2

LineA == <<"a">>

LineATrail == <<"a", " ">>

LineB == <<"b">>

LineC == <<"c">>

LineZ == <<"z">>

LineAComment == <<"a", " ", "#", "c">>

LineX == <<"x">>

LineXComment == <<"x", " ", "#", "c">>

LineEndInside == <<"b", " ", ">", ">", ">", ">", ">", ">", ">", " ", "R", "E", "P", "L", "A", "C", "E">>

LineStartL == ANCHOR_START_PREFIX \o <<" ", "L">>

LineEnd == ANCHOR_END_PREFIX

LineStartM == ANCHOR_START_PREFIX \o <<" ", "M">>

CRLF == <<"\r", "\n">>

CR == <<"\r">>

Prose == <<"H", "e", "r", "e", " ", "i", "s", " ", "t", "h", "e", " ", "d", "i", "f", "f", ":">>

FenceOpen == <<"BQ", "BQ", "BQ", "d", "i", "f", "f", "\n">>

FenceClose == <<"\n", "BQ", "BQ", "BQ">>

\* the sequences over S of length 1..n
SeqsUpTo(S, n) == UNION {[1..k -> S] : k \in 1..n}

RECURSIVE JoinWith(_, _)
\* sep.join(lines)
JoinWith(lines, sep) ==
    IF Len(lines) = 0 THEN <<>>
    ELSE IF Len(lines) = 1 THEN lines[1]
    ELSE lines[1] \o sep \o JoinWith(Tail(lines), sep)

\* a block as the grammar of the diff text writes it
RenderBlock(search, replace) ==
    LT7 \o <<" ">> \o SEARCH_WORD \o <<NL>> \o JoinLines(search) \o <<NL>>
        \o EQ7 \o <<NL>> \o JoinLines(replace) \o <<NL>>
        \o GT7 \o <<" ">> \o REPLACE_WORD

\* blocks, each <<search lines, replace lines>>, one after the other
RenderDiff(blocks) ==
    JoinLines([k \in 1..Len(blocks) |-> RenderBlock(blocks[k][1], blocks[k][2])])

\* diff texts that hold no well-formed block
NoBlockDiffs ==
    {<<>>,
     Prose,
     LT7 \o <<" ">> \o SEARCH_WORD \o <<NL>> \o LineA,
     LT7 \o <<" ">> \o SEARCH_WORD \o <<NL>> \o LineA \o <<NL>> \o EQ7 \o <<NL>> \o LineC,
     EQ7 \o <<NL>> \o LineC \o <<NL>> \o GT7 \o <<" ">> \o REPLACE_WORD,
     LineA \o <<NL>> \o GT7 \o <<" ">> \o REPLACE_WORD}

\* plain texts against one block: trailing whitespace, inline comments, no match
PlainLines == {LineA, LineATrail, LineB, LineAComment}

PlainSearches == {<<LineA>>, <<LineATrail>>, <<LineA, LineB>>, <<LineC>>}

PlainReplaces == {<<LineC>>, <<LineB, LineA>>, <<LineA>>}

PlainDiffs ==
    {RenderDiff(<< <<s, r>> >>) : s \in PlainSearches, r \in PlainReplaces}

PlainInputs ==
    {JoinLines(t) : t \in SeqsUpTo(PlainLines, MaxLines)} \X (PlainDiffs \cup NoBlockDiffs)

\* texts with "\r\n" or "\r" line endings, and diffs inside prose and code fences
ForeignInputs ==
    {JoinWith(t, sep) : t \in [1..2 -> {LineA, LineB}], sep \in {CRLF, CR}}
        \X ({<<>>, Prose}
            \cup {RenderDiff(<< <<s, <<LineC>> >> >>) : s \in {<<LineA>>, <<LineC>>}}
            \cup {RenderDiff(<< <<<<LineA>>, <<EQ7>> >> >>)}
            \cup {JoinWith(SplitLines(RenderDiff(<< <<s, <<LineC>> >> >>)), CRLF) :
                    s \in {<<LineA>>}}
            \cup {Prose \o <<NL>> \o FenceOpen \o RenderDiff(<< <<s, <<LineC>> >> >>)
                        \o FenceClose : s \in {<<LineA>>}})

\* a delimiter run on a line of a text with CR or CRLF line endings
MarkerForeignInputs ==
    {JoinWith(<<LineA, EQ7>>, CRLF), JoinWith(<<EQ7, LineA>>, CR)}
        \X {<<>>, RenderDiff(<< <<<<LineA>>, <<LineC>> >> >>)}

\* several blocks in one diff
MultiBlocks ==
    {<< <<LineA>>, <<LineC>> >>,
     << <<LineC>>, <<LineB>> >>,
     << <<LineB>>, <<LineA, LineA>> >>,
     << <<LineA, LineB>>, <<LineC>> >>}

MultiInputs ==
    {JoinLines(t) : t \in SeqsUpTo({LineA, LineB}, MaxLines)}
        \X {RenderDiff(bs) : bs \in SeqsUpTo(MultiBlocks, MaxBlocks)}

\* anchored regions
AnchorTexts ==
    {<<LineStartL, LineA, LineEnd>>,
     <<LineX, LineStartL, LineEnd>>,
     <<LineXComment, LineStartL, LineEnd>>,
     <<LineStartL, LineA, LineEnd, LineStartL>>,
     <<LineStartM, LineStartL, LineEnd, LineEnd>>,
     <<LineStartL, LineX>>,
     <<LineX, LineEnd>>}

AnchorSearches == {<<LineStartL>>, <<LineX, LineStartL>>, <<LineStartL, LineA, LineEnd>>}

AnchorReplaces == {<<LineZ>>, <<LineStartL, LineB>>}

AnchorInputs ==
    {JoinLines(t) : t \in AnchorTexts}
        \X {RenderDiff(<< <<s, r>> >>) : s \in AnchorSearches, r \in AnchorReplaces}

\* delimiter runs in the text and in the bodies of a block
MarkerReplaces ==
    {<<LineC>>, <<EQ7>>, <<LineB, EQ7, LineC>>, <<LineEndInside, LineC>>}

MarkerInputs ==
    {JoinLines(t) : t \in SeqsUpTo({LineA, EQ7}, 2)}
        \X {RenderDiff(<< <<s, r>> >>) : s \in {<<LineA>>, <<LineB>>}, r \in MarkerReplaces}

\* near matches: one line of five characters against searches at one and two edits,
\* and one line of a hundred characters against searches at twenty and twenty-one
LineAbcde == <<"a", "b", "c", "d", "e">>

LineAbcdX == <<"a", "b", "c", "d", "X">>

LineAbcdY == <<"a", "b", "c", "d", "Y">>

LineAbcXY == <<"a", "b", "c", "X", "Y">>

LineLong == [i \in 1..100 |-> "a"]

LineLong20 == [i \in 1..100 |-> IF i <= 20 THEN "b" ELSE "a"]

LineLong21 == [i \in 1..100 |-> IF i <= 21 THEN "b" ELSE "a"]

LineAb == <<"a", "b">>

LineDe == <<"d", "e">>

FuzzyInputs ==
    ({JoinLines(t) : t \in {<<LineAbcde>>, <<LineAbcdY, LineAbcXY>>, <<LineB, LineAbcXY>>}}
        \X {RenderDiff(<< <<s, <<LineZ>> >> >>) :
              s \in {<<LineAbcde>>, <<LineAbcdX>>, <<LineAbcXY>>, <<LineAbcdX, LineB>>}})
    \cup
    ({JoinLines(t) : t \in {<<LineAbcdX, LineAbcdY>>,
                            <<LineAb, LineDe, LineAbcdX>>,
                            <<LineAbcdX, LineAb, LineDe>>}}
        \X {RenderDiff(<< <<<<LineAbcde>>, <<LineZ>> >> >>)})
    \cup
    ({LineLong}
        \X {RenderDiff(bs) :
              bs \in {<< <<<<LineLong20>>, <<LineZ>> >> >>,
                      << <<<<LineLong21>>, <<LineZ>> >> >>,
                      << <<<<LineLong21>>, <<LineZ>> >>, <<<<LineLong20>>, <<LineZ>> >> >>}})

\* a block with no blank between marker and word and with blanks after the markers
RenderBlockLoose(search, replace) ==
    LT7 \o SEARCH_WORD \o <<" ", " ", NL>> \o JoinLines(search) \o <<NL>>
        \o EQ7 \o <<" ", NL>> \o JoinLines(replace) \o <<NL>>
        \o GT7 \o <<" ", " ">> \o REPLACE_WORD

\* the ways the model writes a list of blocks into a diff text: prose around and
\* between the blocks, loose markers, every block in a code fence, "\r\n" line ends
Renderings(blocks) ==
    {Prose \o <<NL>>
        \o JoinWith([k \in 1..Len(blocks) |-> RenderBlock(blocks[k][1], blocks[k][2])],
                    <<NL>> \o Prose \o <<NL>>)
        \o <<NL>> \o Prose,
     JoinLines([k \in 1..Len(blocks) |-> RenderBlockLoose(blocks[k][1], blocks[k][2])]),
     JoinLines([k \in 1..Len(blocks) |->
                   FenceOpen \o RenderBlock(blocks[k][1], blocks[k][2]) \o FenceClose]),
     JoinWith(SplitLines(RenderDiff(blocks)), CRLF)}

DocumentInputs ==
    {LineA, JoinLines(<<LineC, LineB>>)}
        \X UNION {Renderings(bs) : bs \in SeqsUpTo(MultiBlocks, MaxBlocks)}

LineXA == <<"x", "a">>

LineBY == <<"b", "y">>

LineYTrail == <<"y", " ">>

LineXATrail == <<"x", "a", " ">>

LineCTrail == <<"c", " ">>

\* search lines that occur in the joined buffer from the middle of a line on, with and
\* without blanks at the end of buffer lines
SubstringInputs ==
    {JoinLines(t) : t \in {<<LineXA, LineBY>>,
                           <<LineYTrail, LineXATrail, LineB>>,
                           <<LineYTrail, LineATrail, LineB>>}}
        \X {RenderDiff(<< <<<<LineA, LineB>>, r>> >>) : r \in {<<LineC>>, <<LineCTrail>>}}

LineDefF == <<"d", "e", "f", " ", "f", "(", ")", ":">>

LineDefG == <<"d", "e", "f", " ", "g", "(", ")", ":">>

LineBodyP == <<" ", "p">>

LineBodyQ == <<" ", "q">>

LineBodyR == <<" ", "r">>

LineBodyOther == <<" ">> \o [i \in 1..12 |-> "z"]

LineDecorator == <<"@", "d">>

\* a function followed by a second one, with and without a decorator, against a block
\* that holds the header of the first and a body no strategy before the signature
\* strategy locates
SignatureInputs ==
    {JoinLines(t) : t \in {<<LineDefF, LineBodyP, <<>>, LineDecorator, LineDefG, LineBodyQ>>,
                           <<LineDefF, LineBodyP, <<>>, LineDefG, LineBodyQ>>,
                           <<LineDefF, LineBodyP, LineDecorator, LineBodyQ>>}}
        \X {RenderDiff(<< <<<<LineDefF, LineBodyOther>>, <<LineDefF, LineBodyR>> >> >>)}

LineRule == <<"#", " ", "=", "=", "=", "=", "=", "=", "=", "=", "=", "=">>

\* blocks whose search body holds a comment line with a run of ten "=", before and after
\* another line
RuleBlocks ==
    {<< <<LineRule, LineA>>, <<LineB>> >>, << <<LineA, LineRule>>, <<LineB>> >>}

RuleInputs ==
    {JoinLines(b[1]) : b \in RuleBlocks} \X {RenderDiff(<<b>>) : b \in RuleBlocks}

LineBlank == <<" ", " ">>

LineHash == <<"#", "c">>

\* a block whose body is empty, written without a line for the empty body
RenderBlockTight(search, replace) ==
    LT7 \o <<" ">> \o SEARCH_WORD \o <<NL>>
        \o (IF JoinLines(search) = <<>> THEN <<>> ELSE JoinLines(search) \o <<NL>>)
        \o EQ7 \o <<NL>>
        \o (IF JoinLines(replace) = <<>> THEN <<>> ELSE JoinLines(replace) \o <<NL>>)
        \o GT7 \o <<" ">> \o REPLACE_WORD

\* blocks with an empty search body or an empty replace body: the one line of an
\* empty body is the empty line
EmptyBodyBlocks ==
    {<< <<LineA>>, << <<>> >> >>,
     << <<LineA, LineB>>, << <<>> >> >>,
     << <<LineStartL>>, << <<>> >> >>,
     << <<LineDefF>>, << <<>> >> >>,
     << <<LineAbcde>>, << <<>> >> >>,
     << << <<>> >>, <<LineC>> >>,
     << << <<>> >>, <<LineC, LineC>> >>,
     << << <<>> >>, << <<>> >> >>}

EmptyBodyTexts ==
    {<<LineX, LineA, LineB>>,
     <<LineX, LineAComment, LineB>>,
     <<LineX, <<>>, LineB, <<>> >>,
     <<LineX, LineBlank, <<>> >>,
     <<LineX, LineB, <<>> >>,
     <<LineX, LineB>>,
     <<LineHash, LineB>>,
     << <<>> >>,
     <<LineX, LineAbcdX, LineB>>,
     <<LineStartL, LineA, LineEnd, LineB>>,
     <<LineDefF, LineBodyP, LineB>>}

EmptyBodyInputs ==
    {JoinLines(t) : t \in EmptyBodyTexts}
        \X ({RenderDiff(<<b>>) : b \in EmptyBodyBlocks}
            \cup {RenderBlockTight(b[1], b[2]) : b \in EmptyBodyBlocks}
            \cup {RenderDiff(<<b, b>>) : b \in EmptyBodyBlocks})

Inputs ==
    PlainInputs \cup ForeignInputs \cup MultiInputs \cup AnchorInputs \cup MarkerInputs
        \cup FuzzyInputs \cup DocumentInputs \cup SubstringInputs \cup SignatureInputs
        \cup RuleInputs \cup MarkerForeignInputs \cup EmptyBodyInputs

\* ------------------------------------------------------------------------
\* One call of apply_diff as a state machine: a step per statement group
\* ------------------------------------------------------------------------

VARIABLES
    pc,                 \* the position in apply_diff
    original_code_arg,  \* the argument original_code as the caller passed it
    diff_text_arg,      \* the argument diff_text as the caller passed it
    original_code,      \* original_code after line 315
    diff_blocks,        \* line 323
    result_lines,       \* the line buffer
    blk,                \* the number of the block the loop of line 326 is at
    matched,            \* line 334
    ret,                \* the returned text, once pc = "done"
    block_start,        \* history: the buffer when the current block began
    replaced_by,        \* history: the strategies that replaced the buffer in this block
    trail,              \* history: one record for every finished block
    warnings            \* the blocks line 441 logged a warning for

\* CoderAgent.run of src/coder.py, the caller of apply_diff
VARIABLES
    run_pc,                \* the position in CoderAgent.run
    max_reflection_times,  \* the argument of that name
    ref_idx,               \* the loop variable of line 402
    program_code,          \* line 395
    last_input_list,       \* line 396: the conversation so far
    code_input,            \* line 441: what the developer agent is called with
    developer_output,      \* line 447
    validation_report,     \* self.validation_report
    all_diff_text,         \* line 397
    all_program_code,      \* line 398
    developer_calls,       \* history: the code_input of every call of the developer
    rounds                 \* history: one record for every round that reached its end

run_vars == <<run_pc, max_reflection_times, ref_idx, program_code, last_input_list,
              code_input, developer_output, validation_report, all_diff_text,
              all_program_code, developer_calls, rounds>>

\* two calls of apply_diff under way at once, each with the locals of its own frame
VARIABLES
    calls,                 \* calls[c]: the frame of call c, its arguments and locals
    given,                 \* history: the arguments call c was started with
    log,                   \* the module's logger, the one object the calls share
    schedule               \* history: the call that took each step so far

pair_vars == <<calls, given, log, schedule>>

\* one call of _strip_inline_comment
VARIABLES
    strip_pc,              \* the position of the call
    line_arg,              \* the argument line
    strip_ret              \* the returned text, once strip_pc = "done"

strip_vars == <<strip_pc, line_arg, strip_ret>>

\* the variables one call of apply_diff has no access to
elsewhere == <<run_vars, pair_vars, strip_vars>>

vars == <<pc, original_code_arg, diff_text_arg, original_code, diff_blocks, result_lines,
          blk, matched, ret, block_start, replaced_by, trail, warnings, run_vars,
          pair_vars, strip_vars>>

inputs == <<original_code_arg, diff_text_arg>>

\* line 327
search_lines == SplitLines(diff_blocks[blk][1])

\* line 328
replace_lines == SplitLines(diff_blocks[blk][2])

\* lines 314-323
Call ==
    /\ pc = "call"
    /\ original_code' = normalize_newlines(original_code_arg)
    /\ result_lines' = SplitLines(normalize_newlines(original_code_arg))
    /\ diff_blocks' = extract_diffs(normalize_newlines(diff_text_arg))
    /\ pc' = "for"
    /\ UNCHANGED <<inputs, elsewhere, blk, matched, ret, block_start, replaced_by, trail, warnings>>

\* a loop that gives every block a fresh copy of the original lines
NextBlockOnOriginal ==
    /\ pc = "for"
    /\ IF blk < Len(diff_blocks)
       THEN /\ blk' = blk + 1
            /\ matched' = FALSE
            /\ result_lines' = SplitLines(original_code)
            /\ block_start' = SplitLines(original_code)
            /\ replaced_by' = <<>>
            /\ pc' = "anchor"
       ELSE /\ pc' = "safety"
            /\ UNCHANGED <<result_lines, blk, matched, block_start, replaced_by>>
    /\ UNCHANGED <<inputs, elsewhere, original_code, diff_blocks, ret, trail, warnings>>

\* a loop that gives up at the first block no strategy matched
NextBlockStopsAfterMiss ==
    /\ pc = "for"
    /\ IF blk < Len(diff_blocks) /\ (trail = <<>> \/ trail[Len(trail)].matched)
       THEN /\ blk' = blk + 1
            /\ matched' = FALSE
            /\ block_start' = result_lines
            /\ replaced_by' = <<>>
            /\ pc' = "anchor"
       ELSE /\ pc' = "safety"
            /\ UNCHANGED <<blk, matched, block_start, replaced_by>>
    /\ UNCHANGED <<inputs, elsewhere, original_code, diff_blocks, result_lines, ret, trail, warnings>>

\* a loop that passes over a block whose search body is empty
NextBlockSkipsEmptySearch ==
    /\ pc = "for"
    /\ IF blk < Len(diff_blocks)
       THEN /\ blk' = blk + 1
            /\ matched' = FALSE
            /\ block_start' = result_lines
            /\ replaced_by' = <<>>
            /\ pc' = IF diff_blocks[blk + 1][1] = <<>> THEN "warn" ELSE "anchor"
       ELSE /\ pc' = "safety"
            /\ UNCHANGED <<blk, matched, block_start, replaced_by>>
    /\ UNCHANGED <<inputs, elsewhere, original_code, diff_blocks, result_lines, ret, trail,
                   warnings>>

\* a loop that starts over with the first block once the last one is done
NextBlockStartsOver ==
    /\ pc = "for"
    /\ IF blk < Len(diff_blocks)
       THEN /\ blk' = blk + 1
            /\ matched' = FALSE
            /\ block_start' = result_lines
            /\ replaced_by' = <<>>
            /\ pc' = "anchor"
            /\ UNCHANGED <<result_lines, trail, warnings>>
       ELSE /\ blk' = 0
            /\ matched' = FALSE
            /\ block_start' = <<>>
            /\ replaced_by' = <<>>
            /\ result_lines' = SplitLines(original_code)
            /\ trail' = <<>>
            /\ warnings' = <<>>
            /\ pc' = "for"
    /\ UNCHANGED <<inputs, elsewhere, original_code, diff_blocks, ret>>

\* line 326: the next block, or the end of the loop; lines 327-334
NextBlock ==
    /\ pc = "for"
    /\ IF blk < Len(diff_blocks)
       THEN /\ blk' = blk + 1
            /\ matched' = FALSE
            /\ block_start' = result_lines
            /\ replaced_by' = <<>>
            /\ pc' = "anchor"
       ELSE /\ pc' = "safety"
            /\ UNCHANGED <<blk, matched, block_start, replaced_by>>
    /\ UNCHANGED <<inputs, elsewhere, original_code, diff_blocks, result_lines, ret, trail, warnings>>

\* what a strategy step leaves: the buffer, the flag, and its name in the history
Leaves(step) ==
    /\ result_lines' = step.lines
    /\ matched' = step.matched
    /\ replaced_by' = IF step.hit THEN Append(replaced_by, pc) ELSE replaced_by
    /\ UNCHANGED <<inputs, elsewhere, original_code, diff_blocks, blk, ret, block_start, trail,
                   warnings>>

\* lines 336-343
Anchor ==
    /\ pc = "anchor"
    /\ Leaves(AnchorStep(result_lines, matched, search_lines, replace_lines))
    /\ pc' = "window"

\* lines 345-351
Window ==
    /\ pc = "window"
    /\ Leaves(WindowStep(result_lines, matched, search_lines, replace_lines))
    /\ pc' = "comment"

\* lines 352-360
Comment ==
    /\ pc = "comment"
    /\ Leaves(CommentStep(result_lines, matched, search_lines, replace_lines))
    /\ pc' = "fallback"

\* lines 361-382
Fallback ==
    /\ pc = "fallback"
    /\ Leaves(FallbackStep(result_lines, matched, search_lines, replace_lines))
    /\ pc' = "fuzzy"

\* lines 384-403
Fuzzy ==
    /\ pc = "fuzzy"
    /\ Leaves(FuzzyStep(result_lines, matched, search_lines, replace_lines))
    /\ pc' = "signature"

\* lines 405-429
Signature ==
    /\ pc = "signature"
    /\ Leaves(SignatureStep(result_lines, matched, search_lines, replace_lines))
    /\ pc' = "present"

\* lines 431-436
Present ==
    /\ pc = "present"
    /\ Leaves(PresentStep(result_lines, matched, search_lines, replace_lines))
    /\ pc' = "warn"

\* lines 438-446, the end of the loop body
Warn ==
    /\ pc = "warn"
    /\ warnings' = IF matched THEN warnings ELSE Append(warnings, blk)
    /\ trail' = Append(trail, [before      |-> block_start,
                               after       |-> result_lines,
                               matched     |-> matched,
                               replaced_by |-> replaced_by])
    /\ pc' = "for"
    /\ UNCHANGED <<inputs, elsewhere, original_code, diff_blocks, result_lines, blk, matched, ret,
                   block_start, replaced_by>>

\* lines 448-452
Return ==
    /\ pc = "safety"
    /\ ret' = SafetyNet(JoinLines(result_lines), original_code)
    /\ pc' = "done"
    /\ UNCHANGED <<inputs, elsewhere, original_code, diff_blocks, result_lines, blk, matched,
                   block_start, replaced_by, trail, warnings>>

Next ==
    \/ Call
    \/ NextBlock
    \/ Anchor
    \/ Window
    \/ Comment
    \/ Fallback
    \/ Fuzzy
    \/ Signature
    \/ Present
    \/ Warn
    \/ Return

\* no run of CoderAgent.run is under way
RunAtRest ==
    /\ run_pc = "rest"
    /\ max_reflection_times = 0
    /\ ref_idx = 0
    /\ program_code = <<>>
    /\ last_input_list = <<>>
    /\ code_input = <<>>
    /\ developer_output = <<>>
    /\ validation_report = None
    /\ all_diff_text = <<>>
    /\ all_program_code = <<>>
    /\ developer_calls = <<>>
    /\ rounds = <<>>

\* no call of _strip_inline_comment is under way
StripAtRest ==
    /\ strip_pc = "rest"
    /\ line_arg = <<>>
    /\ strip_ret = <<>>

\* no pair of concurrent calls is under way
PairAtRest ==
    /\ calls = <<>>
    /\ given = <<>>
    /\ log = <<>>
    /\ schedule = <<>>

Init ==
    /\ RunAtRest
    /\ PairAtRest
    /\ StripAtRest
    /\ pc = "call"
    /\ \E input \in Inputs :
          /\ original_code_arg = input[1]
          /\ diff_text_arg = input[2]
    /\ original_code = <<>>
    /\ diff_blocks = <<>>
    /\ result_lines = <<>>
    /\ blk = 0
    /\ matched = FALSE
    /\ ret = <<>>
    /\ block_start = <<>>
    /\ replaced_by = <<>>
    /\ trail = <<>>
    /\ warnings = <<>>

Spec == Init /\ [][Next]_vars

\* the positions of apply_diff
Statements ==
    {"call", "for", "anchor", "window", "comment", "fallback", "fuzzy", "signature",
     "present", "warn", "safety", "done"}

\* a statement runs: every step of Next leaves the position it was taken at, and
\* every position but "done" has a step of Next
Proceed ==
    /\ pc # "done"
    /\ pc' \in Statements \ {pc}

\* the interpreter runs a call that has a statement left: no call stops half-way
SpecLive == Init /\ [][Next]_vars /\ WF_pc(Proceed)

\* ------------------------------------------------------------------------
\* CoderAgent.run (src/coder.py): the reflection loop around apply_diff
\* ------------------------------------------------------------------------

\* the most reflection rounds a caller asks for
MaxReflections == 2

VALIDATION_MARKER ==
    <<"V", "A", "L", "I", "D", "A", "T", "I", "O", "N", "_", "R", "E", "P", "O", "R", "T", ":">>

\* str.strip of the one character ch
StripChar(t, ch) ==
    LET keep == {i \in 1..Len(t) : t[i] # ch}
    IN  IF keep = {} THEN <<>> ELSE SubSeq(t, MinOf(keep), MaxOf(keep))

\* the texts json.loads accepts, among the texts a developer output of the model holds
JsonTexts == {<<"{", "}">>}

\* _extract_validation_report(text): the JSON text of the report, or None
extract_validation_report(text) ==
    LET idx == Find(text, VALIDATION_MARKER, 1)
    IN  IF idx = 0 THEN None
        ELSE LET rest     == strip(SubSeq(text, idx + Len(VALIDATION_MARKER), Len(text)))
                 unfenced == IF StartsAt(rest, 1, FENCE) THEN strip(StripChar(rest, "BQ"))
                             ELSE rest
                 braces   == {i \in 1..Len(unfenced) : unfenced[i] = "}"}
                 json_segment == IF braces = {} THEN unfenced
                                 ELSE SubSeq(unfenced, 1, MaxOf(braces))
             IN  IF json_segment \in JsonTexts THEN json_segment ELSE None

\* what black's format_str keeps of a text the model can hold: no trailing blanks, one
\* newline at the end
BlackFormat(code) ==
    LET text == rstrip_nl(JoinLines(rstrip_lines(SplitLines(code))))
    IN  IF text = <<>> THEN <<>> ELSE text \o <<NL>>

\* lines 498-502: format_str returns the formatted text, or raises and the code stays
FormatOutcomes(code) == {code, BlackFormat(code)}

\* a message of the conversation: its role, what it says, and the texts it carries
Message(role, content, texts) == [role |-> role, content |-> content, texts |-> texts]

\* lines 415-443: the prompt of a round carries the current program and, from the
\* second round on, the last diff of all_diff_text
CodePrompt ==
    IF ref_idx > 0
    THEN Message("user", "DIFF_CODE_TEMPLATE, previous diff, REFLECTION_CONTENT",
                 <<program_code, all_diff_text[Len(all_diff_text)]>>)
    ELSE Message("user", "DIFF_CODE_TEMPLATE", <<program_code>>)

\* lines 455-461, 469-477, 486-494: the three follow-up messages
VALIDATION_FOLLOW_UP == Message("user", "now return SEARCH/REPLACE diffs", <<>>)

NO_DIFF_FOLLOW_UP == Message("user", "did not include a valid SEARCH/REPLACE diff", <<>>)

NOT_APPLIED_FOLLOW_UP == Message("user", "could not be applied to the current code", <<>>)

\* what the developer agent may answer: a validation report, a report that is no JSON,
\* prose, and diffs that hit or miss the programs of the model
DeveloperOutputs ==
    {VALIDATION_MARKER \o <<" ", "{", "}">>,
     VALIDATION_MARKER \o <<" ", "?">>,
     Prose,
     RenderDiff(<< <<<<LineA>>, <<LineC>> >> >>),
     RenderDiff(<< <<<<LineC>>, <<LineB>> >> >>),
     RenderDiff(<< <<<<LineA>>, <<EQ7>> >> >>)}

\* program.code
ProgramTexts == {LineA, JoinWith(<<LineA, LineB>>, CR)}

\* the end of a round of the given kind: the loop goes to the next ref_idx
EndRound(kind, candidate) ==
    /\ rounds' = Append(rounds, [ref_idx   |-> ref_idx,
                                 kind      |-> kind,
                                 program   |-> program_code,
                                 candidate |-> candidate])
    /\ ref_idx' = ref_idx + 1
    /\ run_pc' = "round"

\* no call of apply_diff of the first specification is under way
ApplyAtRest ==
    /\ pc = "rest"
    /\ original_code_arg = <<>>
    /\ diff_text_arg = <<>>
    /\ original_code = <<>>
    /\ diff_blocks = <<>>
    /\ result_lines = <<>>
    /\ blk = 0
    /\ matched = FALSE
    /\ ret = <<>>
    /\ block_start = <<>>
    /\ replaced_by = <<>>
    /\ trail = <<>>
    /\ warnings = <<>>

apply_vars == <<pc, original_code_arg, diff_text_arg, original_code, diff_blocks,
                result_lines, blk, matched, ret, block_start, replaced_by, trail, warnings>>

\* lines 402-443: the head of a round up to code_input; line 435 reads
\* all_diff_text[-1], which raises IndexError while the list is empty
Prompt ==
    /\ run_pc = "round"
    /\ ref_idx <= max_reflection_times
    /\ IF ref_idx > 0 /\ all_diff_text = <<>>
       THEN /\ run_pc' = "raised"
            /\ UNCHANGED code_input
       ELSE /\ code_input' = Append(last_input_list, CodePrompt)
            /\ run_pc' = "await"
    /\ UNCHANGED <<apply_vars, pair_vars, strip_vars, max_reflection_times, ref_idx, program_code,
                   last_input_list, developer_output, validation_report, all_diff_text,
                   all_program_code, developer_calls, rounds>>

\* lines 445-447: the developer agent answers
Developer ==
    /\ run_pc = "await"
    /\ \E out \in DeveloperOutputs :
          /\ developer_output' = out
          /\ last_input_list' = Append(code_input, Message("assistant", "final output", <<out>>))
    /\ developer_calls' = Append(developer_calls, code_input)
    /\ run_pc' = "judge"
    /\ UNCHANGED <<apply_vars, pair_vars, strip_vars, max_reflection_times, ref_idx, program_code, code_input,
                   validation_report, all_diff_text, all_program_code, rounds>>

\* lines 449-462
ValidationReport ==
    /\ run_pc = "judge"
    /\ extract_validation_report(developer_output) # None
    /\ validation_report' = extract_validation_report(developer_output)
    /\ last_input_list' = Append(last_input_list, VALIDATION_FOLLOW_UP)
    /\ EndRound("validation", program_code)
    /\ UNCHANGED <<apply_vars, pair_vars, strip_vars, max_reflection_times, program_code, code_input,
                   developer_output, all_diff_text, all_program_code, developer_calls>>

\* lines 464-478
NoDiffBlocks ==
    /\ run_pc = "judge"
    /\ extract_validation_report(developer_output) = None
    /\ extract_diffs(developer_output) = <<>>
    /\ last_input_list' = Append(last_input_list, NO_DIFF_FOLLOW_UP)
    /\ EndRound("no diff", program_code)
    /\ UNCHANGED <<apply_vars, pair_vars, strip_vars, max_reflection_times, program_code, code_input,
                   developer_output, validation_report, all_diff_text, all_program_code,
                   developer_calls>>

\* lines 480-495
DiffNotApplied ==
    /\ run_pc = "judge"
    /\ extract_validation_report(developer_output) = None
    /\ extract_diffs(developer_output) # <<>>
    /\ apply_diff(program_code, developer_output) = program_code
    /\ last_input_list' = Append(last_input_list, NOT_APPLIED_FOLLOW_UP)
    /\ EndRound("not applied", apply_diff(program_code, developer_output))
    /\ UNCHANGED <<apply_vars, pair_vars, strip_vars, max_reflection_times, program_code, code_input,
                   developer_output, validation_report, all_diff_text, all_program_code,
                   developer_calls>>

\* an applied round that records the diff text and not the program it led to
DiffAppliedOneList ==
    /\ run_pc = "judge"
    /\ extract_validation_report(developer_output) = None
    /\ extract_diffs(developer_output) # <<>>
    /\ LET program_code_candidate == apply_diff(program_code, developer_output)
       IN  /\ program_code_candidate # program_code
           /\ \E formatted \in FormatOutcomes(program_code_candidate) :
                 program_code' = formatted
           /\ all_diff_text' = Append(all_diff_text, developer_output)
           /\ EndRound("applied", program_code_candidate)
    /\ UNCHANGED <<apply_vars, pair_vars, strip_vars, max_reflection_times, last_input_list, code_input,
                   developer_output, validation_report, developer_calls, all_program_code>>

\* lines 480-482, 496-505
DiffApplied ==
    /\ run_pc = "judge"
    /\ extract_validation_report(developer_output) = None
    /\ extract_diffs(developer_output) # <<>>
    /\ LET program_code_candidate == apply_diff(program_code, developer_output)
       IN  /\ program_code_candidate # program_code
           /\ \E formatted \in FormatOutcomes(program_code_candidate) :
                 /\ program_code' = formatted
                 /\ all_program_code' = Append(all_program_code, formatted)
           /\ all_diff_text' = Append(all_diff_text, developer_output)
           /\ EndRound("applied", program_code_candidate)
    /\ UNCHANGED <<apply_vars, pair_vars, strip_vars, max_reflection_times, last_input_list, code_input,
                   developer_output, validation_report, developer_calls>>

\* lines 507-508: the loop is through and the two lists are returned
Finish ==
    /\ run_pc = "round"
    /\ ref_idx > max_reflection_times
    /\ run_pc' = "returned"
    /\ UNCHANGED <<apply_vars, pair_vars, strip_vars, max_reflection_times, ref_idx, program_code,
                   last_input_list, code_input, developer_output, validation_report,
                   all_diff_text, all_program_code, developer_calls, rounds>>

NextRun ==
    \/ Prompt
    \/ Developer
    \/ ValidationReport
    \/ NoDiffBlocks
    \/ DiffNotApplied
    \/ DiffApplied
    \/ Finish

\* lines 395-398
InitRun ==
    /\ ApplyAtRest
    /\ PairAtRest
    /\ StripAtRest
    /\ run_pc = "round"
    /\ max_reflection_times \in 0..MaxReflections
    /\ ref_idx = 0
    /\ program_code \in ProgramTexts
    /\ last_input_list = <<>>
    /\ code_input = <<>>
    /\ developer_output = <<>>
    /\ validation_report = None
    /\ all_diff_text = <<>>
    /\ all_program_code = <<>>
    /\ developer_calls = <<>>
    /\ rounds = <<>>

SpecRun == InitRun /\ [][NextRun]_vars

\* ------------------------------------------------------------------------
\* two calls of apply_diff at once (src/utils/code.py:303-452): every local
\* of the function lives in the frame of its call
\* ------------------------------------------------------------------------

CallIds == 1..2

\* the texts and diffs the two callers pass: LF and CR texts, one block, two blocks, a
\* block that is missed, and no block
PairTexts == {LineA, JoinLines(<<LineA, LineB>>), JoinWith(<<LineA, LineB>>, CR)}

PairDiffs ==
    {RenderDiff(<< <<<<LineA>>, <<LineC>> >> >>),
     RenderDiff(<< <<<<LineA>>, <<LineB>> >>, <<<<LineB>>, <<LineC>> >> >>),
     RenderDiff(<< <<<<LineC>>, <<LineB>> >> >>),
     Prose}

\* the frame of a call that has not run a line yet
Frame(code, diff) ==
    [pc                |-> "call",
     original_code_arg |-> code,
     diff_text_arg     |-> diff,
     original_code     |-> <<>>,
     diff_blocks       |-> <<>>,
     result_lines      |-> <<>>,
     blk               |-> 0,
     ret               |-> <<>>]

\* a buffer kept in one place for all calls: every call works on the buffer of call 1
BufferOfFirstCall(c) ==
    calls[1].result_lines

\* the buffer the block loop of call c works on: the local result_lines of line 324
BufferOf(c) ==
    calls[c].result_lines

\* lines 314-324 in call c
Enter(c) ==
    /\ calls[c].pc = "call"
    /\ LET normalized == normalize_newlines(calls[c].original_code_arg)
       IN  calls' = [calls EXCEPT ![c].original_code = normalized,
                                  ![c].diff_blocks =
                                      extract_diffs(normalize_newlines(calls[c].diff_text_arg)),
                                  ![c].result_lines = SplitLines(normalized),
                                  ![c].blk = 1,
                                  ![c].pc = "for"]
    /\ schedule' = Append(schedule, c)
    /\ UNCHANGED <<apply_vars, run_vars, strip_vars, given, log>>

\* lines 326-446 in call c: one pass of the block loop, a miss is logged
Block(c) ==
    /\ calls[c].pc = "for"
    /\ calls[c].blk <= Len(calls[c].diff_blocks)
    /\ calls' = [calls EXCEPT ![c].result_lines =
                                  ApplyBlock(BufferOf(c),
                                             SplitLines(calls[c].diff_blocks[calls[c].blk][1]),
                                             SplitLines(calls[c].diff_blocks[calls[c].blk][2])),
                              ![c].blk = calls[c].blk + 1]
    /\ log' = IF BlockMissed(BufferOf(c),
                             SplitLines(calls[c].diff_blocks[calls[c].blk][1]),
                             SplitLines(calls[c].diff_blocks[calls[c].blk][2]))
              THEN Append(log, calls[c].diff_blocks[calls[c].blk][1])
              ELSE log
    /\ schedule' = Append(schedule, c)
    /\ UNCHANGED <<apply_vars, run_vars, strip_vars, given>>

\* lines 448-452 in call c
Leave(c) ==
    /\ calls[c].pc = "for"
    /\ calls[c].blk > Len(calls[c].diff_blocks)
    /\ calls' = [calls EXCEPT ![c].ret = SafetyNet(JoinLines(calls[c].result_lines),
                                                   calls[c].original_code),
                              ![c].pc = "done"]
    /\ schedule' = Append(schedule, c)
    /\ UNCHANGED <<apply_vars, run_vars, strip_vars, given, log>>

NextPair ==
    \E c \in CallIds :
        \/ Enter(c)
        \/ Block(c)
        \/ Leave(c)

InitPair ==
    /\ ApplyAtRest
    /\ RunAtRest
    /\ StripAtRest
    /\ given \in [CallIds -> PairTexts \X PairDiffs]
    /\ calls = [c \in CallIds |-> Frame(given[c][1], given[c][2])]
    /\ log = <<>>
    /\ schedule = <<>>

SpecPair == InitPair /\ [][NextPair]_vars

\* ------------------------------------------------------------------------
\* one call of _strip_inline_comment (src/utils/code.py:269-292)
\* ------------------------------------------------------------------------

\* the longest line a caller passes
MaxChars == 4

\* the characters the function tells apart, and one it does not
StripChars == {"a", "#", "'", "\"", "\\"}

\* lines 274-292: the whole call
Strip ==
    /\ strip_pc = "call"
    /\ strip_ret' = strip_inline_comment(line_arg)
    /\ strip_pc' = "done"
    /\ UNCHANGED <<apply_vars, run_vars, pair_vars, line_arg>>

NextStrip ==
    Strip

InitStrip ==
    /\ ApplyAtRest
    /\ RunAtRest
    /\ PairAtRest
    /\ strip_pc = "call"
    /\ line_arg \in {<<>>} \cup SeqsUpTo(StripChars, MaxChars)
    /\ strip_ret = <<>>

SpecStrip == InitStrip /\ [][NextStrip]_vars

\* ------------------------------------------------------------------------
\* What the claims speak of
\* ------------------------------------------------------------------------

\* the original text as lines
TextLines == SplitLines(normalize_newlines(original_code_arg))

\* the search and the replace lines of block k of the diff
BlockSearch(k) == SplitLines(diff_blocks[k][1])

BlockReplace(k) == SplitLines(diff_blocks[k][2])

\* the windows of `lines` that equal `search` line by line, verbatim
VerbatimWindows(lines, search) ==
    {i \in 1..(Len(lines) - Len(search) + 1) :
        \A j \in 1..Len(search) : lines[i + j - 1] = search[j]}

\* the windows that equal `search` once trailing whitespace is removed on both sides
TrimWindows(lines, search) ==
    {i \in 1..(Len(lines) - Len(search) + 1) :
        \A j \in 1..Len(search) : rstrip(lines[i + j - 1]) = rstrip(search[j])}

\* the windows that equal `search` once a trailing comment and trailing whitespace
\* are removed on both sides
CommentWindows(lines, search) ==
    {i \in 1..(Len(lines) - Len(search) + 1) :
        \A j \in 1..Len(search) :
            rstrip(strip_inline_comment(lines[i + j - 1]))
                = rstrip(strip_inline_comment(search[j]))}

\* `lines` with the window of Len(search) lines at i replaced
WindowReplaced(lines, i, search, replace) ==
    Splice(lines, i, i + Len(search) - 1, replace)

\* one of the three literal delimiter tokens occurs in the text
HasDelimiterToken(text) ==
    \/ Contains(text, LT7 \o <<" ">> \o SEARCH_WORD)
    \/ Contains(text, EQ7)
    \/ Contains(text, GT7 \o <<" ">> \o REPLACE_WORD)

\* a seven-character run of "<", "=" or ">" occurs in the text
HasRun(text) ==
    \E c \in {"<", "=", ">"} : Contains(text, [i \in 1..7 |-> c])

\* some strategy replaced the buffer while block k was processed
Applied(k) == trail[k].replaced_by # <<>>

\* block k carries no anchor label, or the buffer it met holds no region for it
NotAnchored(k) == AnchorRegion(trail[k].before, BlockSearch(k)) = NoRegion

\* C1: apply_diff(T, "") = T for every T, also one with CR or CRLF line endings,
\* and apply_diff(T, D) = T for every D that holds no block
C1_NoOpLaw ==
    (pc = "done" /\ Len(diff_blocks) = 0) => ret = original_code_arg

\* C2: when the diff holds blocks and no strategy locates any of them, the returned
\* text equals the original text the caller passed
C2_TotalFailureIsEquality ==
    (pc = "done" /\ Len(diff_blocks) >= 1 /\ \A k \in 1..Len(trail) : ~Applied(k))
        => ret = original_code_arg

EndMarkerInReplaceDiffs ==
    {RenderDiff(<< <<s, r>> >>) :
        s \in {<<LineA>>, <<LineB>>},
        r \in {r \in MarkerReplaces :
                 \E i \in 1..Len(r) : Contains(r[i], GT7 \o <<" ">> \o REPLACE_WORD)}}

\* C4: a replace body that holds the literal ">>>>>>> REPLACE" makes apply_diff
\* return the original text
C4_EndMarkerInReplaceReverts ==
    (pc = "done" /\ diff_text_arg \in EndMarkerInReplaceDiffs) => ret = original_code_arg

\* the one block of the diff has no anchor label and brings no delimiter run, and the
\* text holds none
C5_Case ==
    /\ pc = "done"
    /\ Len(diff_blocks) = 1
    /\ extract_anchor_label(BlockSearch(1)) = None
    /\ ~HasRun(original_code_arg)
    /\ ~HasRun(diff_blocks[1][2])
    /\ VerbatimWindows(TextLines, BlockSearch(1)) # {}

\* C5 as claimed: search lines that occur verbatim in T have exactly a verbatim
\* occurrence replaced, even when another window matches after right-trimming
C5_ExactMatchPrecedence ==
    C5_Case =>
        \E i \in VerbatimWindows(TextLines, BlockSearch(1)) :
            ret = JoinLines(WindowReplaced(TextLines, i, BlockSearch(1), BlockReplace(1)))

\* C5 as amended: the first window that equals the search lines after right-trimming
\* is the one replaced, every other line stays, and that text is returned
C5_FirstTrimWindowReplaced ==
    C5_Case =>
        ret = JoinLines(WindowReplaced(TextLines,
                                       MinOf(TrimWindows(TextLines, BlockSearch(1))),
                                       BlockSearch(1), BlockReplace(1)))

\* the verbatim occurrence is the first window, a later window matches only after
\* right-trimming, and the verbatim one was replaced
C5_Witness ==
    /\ C5_Case
    /\ MinOf(TrimWindows(TextLines, BlockSearch(1)))
          \in VerbatimWindows(TextLines, BlockSearch(1))
    /\ TrimWindows(TextLines, BlockSearch(1)) # VerbatimWindows(TextLines, BlockSearch(1))
    /\ ret # original_code_arg

\* some strategy of the locator finds a region for `search` in `lines`
Locatable(lines, search) ==
    \/ AnchorRegion(lines, search) # NoRegion
    \/ TrimWindows(lines, search) # {}
    \/ CommentWindows(lines, search) # {}
    \/ /\ JoinLines(rstrip_lines(search)) # <<>>
       /\ Contains(JoinLines(rstrip_lines(lines)), JoinLines(rstrip_lines(search)))
    \/ FuzzyMatch(lines, search) # NoRegion
    \/ SignatureRegion(lines, search) # NoRegion

\* the lines of `lines` that the first trim-tolerant window of `search` covers
FirstRegion(lines, search) ==
    LET i == MinOf(TrimWindows(lines, search))
    IN  i..(i + Len(search) - 1)

\* C6: the blocks are applied in document order to one shared buffer: block k meets
\* the buffer as block k-1 left it and is located in that buffer (so it is applied
\* when its search lines are found there, also when an earlier block introduced them,
\* and it is not applied and leaves the buffer alone when they are not found there,
\* also when the original text held them); two blocks whose regions in T are
\* disjoint are both applied
C6_BlocksShareOneBuffer ==
    /\ \A k \in 1..Len(trail) :
          /\ trail[k].before = (IF k = 1 THEN TextLines ELSE trail[k - 1].after)
          /\ Applied(k) <=> Locatable(trail[k].before, BlockSearch(k))
          /\ ~Applied(k) => trail[k].after = trail[k].before
          /\ (NotAnchored(k) /\ TrimWindows(trail[k].before, BlockSearch(k)) # {})
                => trail[k].after =
                     WindowReplaced(trail[k].before,
                                    MinOf(TrimWindows(trail[k].before, BlockSearch(k))),
                                    BlockSearch(k), BlockReplace(k))
    /\ (/\ Len(trail) = 2
        /\ TrimWindows(TextLines, BlockSearch(1)) # {}
        /\ TrimWindows(TextLines, BlockSearch(2)) # {}
        /\ FirstRegion(TextLines, BlockSearch(1))
              \cap FirstRegion(TextLines, BlockSearch(2)) = {})
          => Applied(1) /\ Applied(2)
    /\ pc = "done" => Len(trail) = Len(diff_blocks) /\ JoinLines(result_lines) =
                        JoinLines(IF trail = <<>> THEN TextLines
                                  ELSE trail[Len(trail)].after)

\* the second block was applied to lines that only the first block brought into the
\* buffer: the original text has no place for it
C6_Witness ==
    /\ pc = "done"
    /\ Len(trail) = 2
    /\ Applied(1)
    /\ Applied(2)
    /\ ~Locatable(TextLines, BlockSearch(2))
    /\ ret # original_code_arg

\* C7: processing one block replaces the buffer at most once, and exactly once when
\* the block matched; a block replaced by anchor is not replaced again by the window
\* strategy
C7_OneSplicePerBlock ==
    /\ Len(replaced_by) <= 1
    /\ \A k \in 1..Len(trail) : trail[k].matched => Len(trail[k].replaced_by) = 1

\* C8: a block whose label has a region in the buffer leaves the buffer with exactly
\* the span from the start sentinel to the end sentinel replaced by the replace lines
C8_AnchorPrecedence ==
    \A k \in 1..Len(trail) :
        ~NotAnchored(k) =>
            LET region == AnchorRegion(trail[k].before, BlockSearch(k))
            IN  trail[k].after =
                    Splice(trail[k].before, region[1], region[2], BlockReplace(k))

\* the first trim-tolerant window of block k was replaced, and nothing else
FirstTrimWindowReplaced(k) ==
    /\ trail[k].matched
    /\ trail[k].after =
          WindowReplaced(trail[k].before,
                         MinOf(TrimWindows(trail[k].before, BlockSearch(k))),
                         BlockSearch(k), BlockReplace(k))

\* C9 as claimed: a block whose search lines equal a window of the buffer after
\* right-trimming matches, and the first such window is the one replaced
C9_WhitespaceTolerance ==
    \A k \in 1..Len(trail) :
        TrimWindows(trail[k].before, BlockSearch(k)) # {} => FirstTrimWindowReplaced(k)

\* C9 as amended: the same, for a block that the anchor strategy does not locate
C9_WhitespaceToleranceUnlessAnchored ==
    \A k \in 1..Len(trail) :
        (NotAnchored(k) /\ TrimWindows(trail[k].before, BlockSearch(k)) # {})
            => FirstTrimWindowReplaced(k) /\ trail[k].replaced_by = <<"window">>

\* a block without a verbatim window was replaced at its first trim-tolerant window
C9_Witness ==
    \E k \in 1..Len(trail) :
        /\ NotAnchored(k)
        /\ VerbatimWindows(trail[k].before, BlockSearch(k)) = {}
        /\ TrimWindows(trail[k].before, BlockSearch(k)) # {}
        /\ trail[k].replaced_by = <<"window">>
        /\ trail[k].after # trail[k].before

\* the first comment-tolerant window of block k was replaced, and nothing else
FirstCommentWindowReplaced(k) ==
    /\ trail[k].matched
    /\ trail[k].after =
          WindowReplaced(trail[k].before,
                         MinOf(CommentWindows(trail[k].before, BlockSearch(k))),
                         BlockSearch(k), BlockReplace(k))

\* block k has no trim-tolerant window but a comment-tolerant one
C10_Case(k) ==
    /\ TrimWindows(trail[k].before, BlockSearch(k)) = {}
    /\ CommentWindows(trail[k].before, BlockSearch(k)) # {}

\* C10 as claimed: a block with no trim-tolerant window whose search lines equal a
\* window after stripping trailing comments and whitespace matches, and the first
\* such window is replaced by the replace lines
C10_CommentTolerance ==
    \A k \in 1..Len(trail) : C10_Case(k) => FirstCommentWindowReplaced(k)

\* C10 as amended: the same, for a block that the anchor strategy does not locate
C10_CommentToleranceUnlessAnchored ==
    \A k \in 1..Len(trail) :
        (NotAnchored(k) /\ C10_Case(k))
            => FirstCommentWindowReplaced(k) /\ trail[k].replaced_by = <<"comment">>

\* a block was replaced at a window that differs from it by a trailing comment
C10_Witness ==
    \E k \in 1..Len(trail) :
        /\ NotAnchored(k)
        /\ C10_Case(k)
        /\ trail[k].replaced_by = <<"comment">>
        /\ trail[k].after # trail[k].before

\* strategies 1-5 find nothing for `search` in `lines`
FirstFiveFail(lines, search) ==
    /\ AnchorRegion(lines, search) = NoRegion
    /\ TrimWindows(lines, search) = {}
    /\ CommentWindows(lines, search) = {}
    /\ ~Contains(JoinLines(lines), JoinLines(search))
    /\ ~Contains(JoinLines(rstrip_lines(lines)), JoinLines(rstrip_lines(search)))

\* the windows <<start, length>> the fuzzy strategy scores
ScoredWindows(lines, search) ==
    {<<i, n>> : i \in 1..Len(lines), n \in 1..Len(lines)}
        \cap {w \in (1..Len(lines)) \X (1..Len(lines)) :
                /\ w[2] >= Len(search) - 2
                /\ w[2] <= Len(search) + 2
                /\ w[1] + w[2] - 1 <= Len(lines)}

\* edit distance over the length of the longer text, for the window w
Dissimilarity(lines, search, w) ==
    NormalizedDistance(JoinLines(search), JoinLines(SubSeq(lines, w[1], w[1] + w[2] - 1)))

\* the similarity 1 - d/m is at least 0.80
AtLeastEighty(x) == 100 * (x[2] - x[1]) >= 80 * x[2]

\* no window scores above w
BestWindow(lines, search, w) ==
    \A v \in ScoredWindows(lines, search) :
        LET x == Dissimilarity(lines, search, w)
            y == Dissimilarity(lines, search, v)
        IN  x[1] * y[2] <= y[1] * x[2]

\* the best window, when it reaches 0.80, is the one replaced
FuzzyReplaced(lines, search, replace, after) ==
    \E w \in ScoredWindows(lines, search) :
        /\ BestWindow(lines, search, w)
        /\ AtLeastEighty(Dissimilarity(lines, search, w))
        /\ after = Splice(lines, w[1], w[1] + w[2] - 1, replace)

\* C11: when strategies 1-5 all fail, the fuzzy strategy replaces the best-scoring
\* window if and only if its similarity is at least 0.80 (0.80 itself is accepted);
\* otherwise it leaves the buffer as it was
C11_FuzzyBoundary ==
    (pc = "signature" /\ FirstFiveFail(block_start, search_lines)) =>
        IF \E w \in ScoredWindows(block_start, search_lines) :
              AtLeastEighty(Dissimilarity(block_start, search_lines, w))
        THEN /\ matched
             /\ replaced_by = <<"fuzzy">>
             /\ FuzzyReplaced(block_start, search_lines, replace_lines, result_lines)
        ELSE /\ ~matched
             /\ replaced_by = <<>>
             /\ result_lines = block_start

\* one call met both sides of the boundary: its first block scored 0.79 and left the
\* buffer alone, its second block scored exactly 0.80 and was applied
C11_Witness ==
    /\ pc = "signature"
    /\ blk = 2
    /\ Len(trail) = 1
    /\ Dissimilarity(trail[1].before, BlockSearch(1), <<1, 1>>) = <<21, 100>>
    /\ trail[1].after = trail[1].before
    /\ FirstFiveFail(block_start, search_lines)
    /\ Dissimilarity(block_start, search_lines, <<1, 1>>) = <<20, 100>>
    /\ replaced_by = <<"fuzzy">>
    /\ result_lines = <<LineZ>>

\* C12: apply_diff never raises: every call ends by returning a text, and the text is
\* the patched buffer or the original text
C12_ReturnsBufferOrOriginal ==
    pc = "done" => (ret = JoinLines(result_lines) \/ ret = original_code_arg)

\* no strategy locates block k in the buffer it met
Missed(k) == ~Locatable(trail[k].before, BlockSearch(k))

\* C13: a block that no strategy locates leaves the buffer exactly as it found it, and
\* the blocks after it are all still attempted, each applied when it is located in
\* the buffer it meets
C13_NoRegionMatchIsLocal ==
    /\ \A k \in 1..Len(trail) :
          Missed(k) =>
              /\ trail[k].after = trail[k].before
              /\ ~Applied(k)
              /\ \A j \in (k + 1)..Len(trail) :
                    /\ trail[j].before = trail[j - 1].after
                    /\ Locatable(trail[j].before, BlockSearch(j)) => Applied(j)
    /\ pc \in {"safety", "done"} => Len(trail) = Len(diff_blocks)

\* the first block was missed and logged, the second block was applied all the same
C13_Witness ==
    /\ pc = "done"
    /\ Len(trail) = 2
    /\ Missed(1)
    /\ warnings = <<1>>
    /\ Applied(2)
    /\ trail[2].after # trail[2].before
    /\ ret = JoinLines(trail[2].after)

\* the pairs extract_diffs owes for a list of blocks, each <<search lines, replace lines>>
PairsOf(blocks) ==
    [k \in 1..Len(blocks) |-> <<JoinLines(blocks[k][1]), JoinLines(blocks[k][2])>>]

\* C14: extract_diffs returns one (search, replace) pair for every well-formed block,
\* in the order of the blocks in the diff text, whatever surrounds the blocks, and
\* the empty list for a text with no well-formed block (the state is the one right
\* after line 323)
C14_ExtractsBlocksInOrder ==
    (pc = "for" /\ blk = 0) =>
        /\ \A bs \in SeqsUpTo(MultiBlocks, MaxBlocks) :
              diff_text_arg \in Renderings(bs) \cup {RenderDiff(bs)}
                  => diff_blocks = PairsOf(bs)
        /\ diff_text_arg \in NoBlockDiffs => diff_blocks = <<>>

\* two different blocks with prose before, between and after them came out in the
\* order of the text
C14_Witness ==
    /\ pc = "for"
    /\ blk = 0
    /\ Contains(diff_text_arg, Prose \o <<NL>> \o LT7)
    /\ Len(diff_blocks) = 2
    /\ diff_blocks[1] # diff_blocks[2]
    /\ \E bs \in SeqsUpTo(MultiBlocks, MaxBlocks) :
          diff_text_arg \in Renderings(bs) /\ diff_blocks = PairsOf(bs)

\* round r ended without an edit although the developer answered: no diff block, or a
\* diff whose result equals the program of the round
FailedRound(r) == rounds[r].kind \in {"no diff", "not applied"}

\* C15: a failed round with a further round left is followed by the next round, in
\* which the developer agent is called again on a conversation that holds the
\* corrective follow-up; a failed round never aborts the loop
C15_FailedRoundIsRetried ==
    /\ run_pc # "raised"
    /\ run_pc = "returned" =>
          \A r \in 1..Len(rounds) :
              (FailedRound(r) /\ rounds[r].ref_idx < max_reflection_times) =>
                  /\ Len(developer_calls) > r
                  /\ \E m \in 1..Len(developer_calls[r + 1]) :
                        developer_calls[r + 1][m] \in {NO_DIFF_FOLLOW_UP, NOT_APPLIED_FOLLOW_UP}

Interleaved ==
    \E i, j, k \in 1..Len(schedule) :
        /\ i < j /\ j < k
        /\ schedule[i] = 1 /\ schedule[j] = 2 /\ schedule[k] = 1

StrategyOrder == <<"anchor", "window", "comment", "fallback", "fuzzy", "signature">>

\* strategy i finds a region for block k in the buffer the block met
Succeeds(i, k) ==
    LET before == trail[k].before
    IN  CASE i = 1 -> AnchorStep(before, FALSE, BlockSearch(k), BlockReplace(k)).hit
          [] i = 2 -> WindowStep(before, FALSE, BlockSearch(k), BlockReplace(k)).hit
          [] i = 3 -> CommentStep(before, FALSE, BlockSearch(k), BlockReplace(k)).hit
          [] i = 4 -> FallbackStep(before, FALSE, BlockSearch(k), BlockReplace(k)).hit
          [] i = 5 -> FuzzyStep(before, FALSE, BlockSearch(k), BlockReplace(k)).hit
          [] i = 6 -> SignatureStep(before, FALSE, BlockSearch(k), BlockReplace(k)).hit

\* C17: strategy priority. For every block the buffer is replaced by the first strategy,
\* in the order of the code, that finds a region in the buffer the block met, and by no
\* other strategy; a block no strategy finds a region for replaces nothing.
C17_StrategyPriority ==
    \A k \in 1..Len(trail) :
        LET succeeding == {i \in DOMAIN StrategyOrder : Succeeds(i, k)}
        IN  trail[k].replaced_by =
                IF succeeding = {} THEN <<>> ELSE <<StrategyOrder[MinOf(succeeding)]>>

\* the buffers that replace a range of whole lines of the buffer by the replace lines
WholeLineSplices(before, inserted) ==
    {Splice(before, range[1], range[2], inserted) :
        range \in {r \in (1..Len(before) + 1) \X (0..Len(before)) : r[2] >= r[1] - 1}}

\* C18: every successful match replaces a range of whole buffer lines. The buffer
\* after a block that one strategy replaced is, up to blanks at the end of lines, the
\* buffer before it with a range of whole lines replaced by the replace lines: no line
\* joins a part of an original line with replace text.
C18_WholeLineSplices ==
    \A k \in 1..Len(trail) :
        Len(trail[k].replaced_by) = 1 =>
            \E whole \in WholeLineSplices(trail[k].before, BlockReplace(k)) :
                rstrip_lines(trail[k].after) = rstrip_lines(whole)

\* the texts that keep the first p and the last q characters of the text and hold
\* exactly the inserted text between them
FramedTexts(text, inserted) ==
    {SubSeq(text, 1, cut[1]) \o inserted \o SubSeq(text, Len(text) - cut[2] + 1, Len(text)) :
        cut \in {c \in (0..Len(text)) \X (0..Len(text)) : c[1] + c[2] <= Len(text)}}

\* C19: the frame of a splice. After a block that one strategy replaced, the buffer
\* outside the replaced region is character for character what it was before the
\* block, and what stands in the place of the region is exactly the replace lines.
C19_SpliceFrame ==
    \A k \in 1..Len(trail) :
        Len(trail[k].replaced_by) = 1 =>
            JoinLines(trail[k].after)
                \in FramedTexts(JoinLines(trail[k].before), JoinLines(BlockReplace(k)))

RECURSIVE HeaderBodyEnd(_, _, _)
\* the first position >= e that is neither blank, nor more indented than the header,
\* nor a decorator line right before a line more indented than the header
HeaderBodyEnd(lines, e, indent) ==
    IF e > Len(lines) THEN e
    ELSE IF strip(lines[e]) = <<>> THEN HeaderBodyEnd(lines, e + 1, indent)
    ELSE IF Indent(lines[e]) > indent THEN HeaderBodyEnd(lines, e + 1, indent)
    ELSE IF /\ StartsAt(strip(lines[e]), 1, <<"@">>)
            /\ e < Len(lines)
            /\ strip(lines[e + 1]) # <<>>
            /\ Indent(lines[e + 1]) > indent
         THEN HeaderBodyEnd(lines, e + 1, indent)
    ELSE e

\* C20: the region of the signature strategy. A block replaced by the signature
\* strategy replaces the header line and the lines after it that are blank, more
\* indented than the header, or decorator lines right before such an indented line; a
\* decorator at the indentation of the header that stands before the next definition
\* of the same level stays in the buffer.
C20_SignatureRegion ==
    \A k \in 1..Len(trail) :
        trail[k].replaced_by = <<"signature">> =>
            LET before  == trail[k].before
                sig_idx == SignatureRegion(before, BlockSearch(k))[1]
                end_idx == HeaderBodyEnd(before, sig_idx + 1, Indent(before[sig_idx]))
            IN  trail[k].after = Splice(before, sig_idx, end_idx - 1, BlockReplace(k))

\* the window v scores exactly as the window w
SameScore(lines, search, w, v) ==
    LET x == Dissimilarity(lines, search, w)
        y == Dissimilarity(lines, search, v)
    IN  x[1] * y[2] = y[1] * x[2]

\* among the scored windows, w has the highest score, and of the windows with that
\* score the least length, and of those the lowest start
SelectedWindow(lines, search, w) ==
    /\ w \in ScoredWindows(lines, search)
    /\ BestWindow(lines, search, w)
    /\ \A v \in ScoredWindows(lines, search) :
          SameScore(lines, search, w, v) =>
              \/ w[2] < v[2]
              \/ w[2] = v[2] /\ w[1] <= v[1]

\* C21: fuzzy window selection. When the fuzzy strategy replaces the buffer, the window
\* it replaced is among the windows of every length from max(1, len(search_lines) - 2)
\* to min(len(buffer), len(search_lines) + 2), has the highest similarity of them all,
\* and among the windows of that similarity is the shortest and then the first.
C21_FuzzyWindowSelection ==
    (pc = "signature" /\ replaced_by = <<"fuzzy">>) =>
        \E w \in ScoredWindows(block_start, search_lines) :
            /\ SelectedWindow(block_start, search_lines, w)
            /\ result_lines = Splice(block_start, w[1], w[1] + w[2] - 1, replace_lines)

\* C21 witness: the fuzzy strategy replaced a one-line window at the end of the buffer
\* although a two-line window at its start scores the same
C21_Witness ==
    /\ pc = "signature"
    /\ replaced_by = <<"fuzzy">>
    /\ Len(block_start) = 3
    /\ SameScore(block_start, search_lines, <<3, 1>>, <<1, 2>>)
    /\ SelectedWindow(block_start, search_lines, <<3, 1>>)
    /\ result_lines = Splice(block_start, 3, 3, replace_lines)

\* C22: the block grammar is line-based. A search body line that holds a run of seven
\* or more "=" without being a separator line is kept whole in the search body: the
\* block comes out of extract_diffs with the search body and the replace body it was
\* written with (the state is the one right after line 323).
C22_SeparatorIsALine ==
    (pc = "for" /\ blk = 0) =>
        \A b \in RuleBlocks :
            diff_text_arg = RenderDiff(<<b>>) => diff_blocks = PairsOf(<<b>>)

\* C23: every block that no strategy locates is reported: a warning is logged for it,
\* also when its replace text already occurs in the buffer.
C23_EveryMissIsLogged ==
    \A k \in 1..Len(trail) :
        Missed(k) => \E n \in 1..Len(warnings) : warnings[n] = k

\* the character at i follows an odd run of backslashes
Escaped(text, i) ==
    \E n \in 1..(i - 1) :
        /\ n % 2 = 1
        /\ \A j \in (i - n)..(i - 1) : text[j] = "\\"
        /\ i - n = 1 \/ text[i - n - 1] # "\\"

RECURSIVE LiteralAt(_, _)
\* the string literal the position i lies in: "single", "double" or "none"; a quote
\* that is escaped neither opens nor closes a literal
LiteralAt(text, i) ==
    IF i = 1 THEN "none"
    ELSE LET before == LiteralAt(text, i - 1)
             ch     == text[i - 1]
         IN  IF Escaped(text, i - 1) THEN before
             ELSE IF ch = "'" /\ before = "none" THEN "single"
             ELSE IF ch = "'" /\ before = "single" THEN "none"
             ELSE IF ch = "\"" /\ before = "none" THEN "double"
             ELSE IF ch = "\"" /\ before = "double" THEN "none"
             ELSE before

\* the positions of the "#" outside every string literal
CommentHashes(text) ==
    {i \in 1..Len(text) : text[i] = "#" /\ LiteralAt(text, i) = "none"}

\* C24: _strip_inline_comment returns the line up to the first "#" that lies outside
\* every single- or double-quoted string literal, and the line unchanged when there
\* is no such "#".
C24_StripsFirstHashOutsideLiterals ==
    strip_pc = "done" =>
        strip_ret = IF CommentHashes(line_arg) = {} THEN line_arg
                    ELSE SubSeq(line_arg, 1, MinOf(CommentHashes(line_arg)) - 1)

\* the positions of the "#" that are not escaped and lie outside every string literal
UnescapedCommentHashes(text) ==
    {i \in CommentHashes(text) : ~Escaped(text, i)}

\* C24, amended: _strip_inline_comment returns the line up to the first "#" that is not
\* escaped by a backslash and lies outside every single- or double-quoted string
\* literal, and the line unchanged when there is no such "#".
C24_StripsFirstUnescapedHash ==
    strip_pc = "done" =>
        strip_ret = IF UnescapedCommentHashes(line_arg) = {} THEN line_arg
                    ELSE SubSeq(line_arg, 1, MinOf(UnescapedCommentHashes(line_arg)) - 1)

\* C24 witness: the "#" inside the literal was kept and the line was cut at the "#"
\* after the literal
C24_Witness ==
    /\ strip_pc = "done"
    /\ line_arg = <<"'", "#", "'", "#">>
    /\ strip_ret = <<"'", "#", "'">>

\* C25: apply_diff terminates. Every call ends in a return, and by then every block
\* of the diff text has gone through the loop exactly once.
C25_ApplyDiffTerminates ==
    <>(pc = "done" /\ Len(trail) = Len(diff_blocks))

\* C25 witness: a call has returned whose block the signature scan extended to the
\* end of the buffer
C25_Witness ==
    /\ pc = "done"
    /\ Len(trail) = Len(diff_blocks)
    /\ Len(trail) = 1
    /\ trail[1].replaced_by = <<"signature">>
    /\ SignatureRegion(trail[1].before, BlockSearch(1))[2] = Len(trail[1].before)

\* the region the claim describes: s is the first line of the buffer that carries the
\* start sentinel with the label, e the first line after s that carries the end sentinel
AnchoredAt(lines, label, s, e) ==
    /\ s \in 1..Len(lines)
    /\ e \in (s + 1)..Len(lines)
    /\ Contains(lines[s], ANCHOR_START_PREFIX)
    /\ LabelOf(lines[s]) = label
    /\ \A i \in 1..(s - 1) :
          ~(Contains(lines[i], ANCHOR_START_PREFIX) /\ LabelOf(lines[i]) = label)
    /\ Contains(lines[e], ANCHOR_END_PREFIX)
    /\ \A j \in (s + 1)..(e - 1) : ~Contains(lines[j], ANCHOR_END_PREFIX)

\* C26: for a search that carries a label, the anchor step replaces the lines from the
\* first start sentinel of that label to the first end sentinel after it, both
\* included, by the replace lines; when the buffer has no such pair it leaves the
\* buffer and the flag alone; either way the window scan comes next.
C26_AnchorRegionBounds ==
    [][(pc = "anchor" /\ extract_anchor_label(search_lines) \notin {None, <<>>}) =>
          LET label == extract_anchor_label(search_lines)
              pairs == {p \in (1..Len(result_lines)) \X (1..Len(result_lines)) :
                           AnchoredAt(result_lines, label, p[1], p[2])}
          IN  /\ pc' = "window"
              /\ \A p \in pairs :
                    /\ matched'
                    /\ result_lines' = SubSeq(result_lines, 1, p[1] - 1) \o replace_lines
                                           \o SubSeq(result_lines, p[2] + 1, Len(result_lines))
              /\ pairs = {} => (result_lines' = result_lines /\ matched' = matched)]_vars

\* C26 witness: the anchor step has replaced lines 2 to 3 of a buffer of four lines
\* whose first line starts a region of another label and whose last is a second end
\* sentinel
C26_Witness ==
    /\ pc = "window"
    /\ replaced_by = <<"anchor">>
    /\ Len(block_start) = 4
    /\ AnchoredAt(block_start, extract_anchor_label(search_lines), 2, 3)
    /\ Contains(block_start[1], ANCHOR_START_PREFIX)
    /\ Contains(block_start[4], ANCHOR_END_PREFIX)
    /\ result_lines = <<block_start[1]>> \o replace_lines \o <<block_start[4]>>

\* where line k of `before` stands in `after` when the step from one to the other
\* replaced no part of it: the two share lines up to k, or share the lines from k on
KeptAt(before, after, k) ==
    {k : p \in {p \in k..Len(before) :
                    /\ p <= Len(after)
                    /\ SubSeq(before, 1, p) = SubSeq(after, 1, p)}}
        \cup {k + Len(after) - Len(before) :
                 q \in {q \in (Len(before) - k + 1)..Len(before) :
                            /\ q <= Len(after)
                            /\ SubSeq(before, Len(before) - q + 1, Len(before))
                                   = SubSeq(after, Len(after) - q + 1, Len(after))}}

RECURSIVE KeptThrough(_, _)
\* where line k of the first buffer stands after the first j blocks, none of which
\* replaced it
KeptThrough(k, j) ==
    IF j = 0 THEN {k}
    ELSE UNION {KeptAt(trail[j].before, trail[j].after, i) : i \in KeptThrough(k, j - 1)}

\* C27: when a line of original_text holds one of the three seven-character runs and
\* no block replaces that line, apply_diff returns original_text, whatever the diff.
C27_MarkerLineFreezesText ==
    pc = "done" =>
        LET lines == SplitLines(normalize_newlines(original_code_arg))
        IN  \A k \in 1..Len(lines) :
                (HasConflictMarker(lines[k]) /\ KeptThrough(k, Len(trail)) # {})
                    => ret = original_code_arg

\* the steps that replace a range of whole lines, and the range each one replaces
LineRangeSteps == {"anchor", "window", "comment", "fuzzy", "signature"}

\* the lines a body of a block stands for: an empty body is one empty line
BodyLines(body) == IF body = <<>> THEN << <<>> >> ELSE SplitLines(body)

\* C28: a line-range strategy that replaces a region of n >= 1 lines puts the lines of
\* the replace body in its place, and one empty line when the body is empty: the
\* buffer has n lines less and max(1, number of replace lines) more. The window and
\* the comment scan replace as many lines as the search has.
C28_EmptyReplaceLeavesALine ==
    [][(pc \in LineRangeSteps /\ replaced_by' # replaced_by) =>
          \E from \in 1..Len(result_lines) :
              \E to \in from..Len(result_lines) :
                  LET n     == to - from + 1
                      put   == BodyLines(diff_blocks[blk][2])
                      count == IF Len(put) >= 1 THEN Len(put) ELSE 1
                  IN  /\ pc \in {"window", "comment"} => n = Len(search_lines)
                      /\ result_lines' = SubSeq(result_lines, 1, from - 1) \o put
                                             \o SubSeq(result_lines, to + 1, Len(result_lines))
                      /\ Len(result_lines') = Len(result_lines) - n + count]_vars

\* C28 witness: the window scan has replaced the one line of the search by the one
\* empty line of an empty replace body, and the buffer is as long as it was
C28_Witness ==
    /\ pc = "comment"
    /\ replaced_by = <<"window">>
    /\ diff_blocks[blk][2] = <<>>
    /\ Len(search_lines) = 1
    /\ Len(block_start) = 3
    /\ Len(result_lines) = 3
    /\ result_lines[2] = <<>>
    /\ block_start[2] # <<>>

\* the first line of `lines` that is empty or holds whitespace only, or 0
FirstBlankLine(lines) ==
    IF \E i \in 1..Len(lines) : strip(lines[i]) = <<>>
    THEN CHOOSE i \in 1..Len(lines) :
             /\ strip(lines[i]) = <<>>
             /\ \A j \in 1..(i - 1) : strip(lines[j]) # <<>>
    ELSE 0

\* C29: a block whose search body is empty is not passed over: when the buffer it
\* meets has a line that is empty or holds whitespace only, the first such line is
\* replaced by the replace lines, and no other line changes.
C29_EmptySearchIsABlankLine ==
    \A k \in 1..Len(trail) :
        (diff_blocks[k][1] = <<>> /\ FirstBlankLine(trail[k].before) # 0) =>
            LET i == FirstBlankLine(trail[k].before)
            IN  /\ trail[k].matched
                /\ trail[k].after =
                       SubSeq(trail[k].before, 1, i - 1) \o BodyLines(diff_blocks[k][2])
                           \o SubSeq(trail[k].before, i + 1, Len(trail[k].before))

\* C29 witness: a block with an empty search body has replaced the second line of a
\* buffer, a line of blanks, by its replace line, and left the empty last line alone
C29_Witness ==
    /\ Len(trail) = 1
    /\ diff_blocks[1][1] = <<>>
    /\ Len(trail[1].before) = 3
    /\ trail[1].before[2] = LineBlank
    /\ trail[1].before[3] = <<>>
    /\ trail[1].after = <<trail[1].before[1], LineC, <<>> >>

\* the round at hand got a diff from the developer and apply_diff returned a text
\* other than the program the round began with
RoundApplies ==
    /\ run_pc = "judge"
    /\ extract_validation_report(developer_output) = None
    /\ extract_diffs(developer_output) # <<>>
    /\ apply_diff(program_code, developer_output) # program_code

\* C30: all_diff_text and all_program_code are always of one length; a step changes
\* either list only by appending one entry to both, the diff text of the round to the
\* first, and only in a round where apply_diff returned a text other than the round's
\* program; every other step leaves program_code as it is.
C30_ListsGrowTogether ==
    /\ [](Len(all_diff_text) = Len(all_program_code))
    /\ [][/\ (all_diff_text' # all_diff_text \/ all_program_code' # all_program_code) =>
                /\ RoundApplies
                /\ all_diff_text' = Append(all_diff_text, developer_output)
                /\ Len(all_program_code') = Len(all_program_code) + 1
                /\ SubSeq(all_program_code', 1, Len(all_program_code)) = all_program_code
          /\ ~RoundApplies => program_code' = program_code]_vars

\* C30 witness: three rounds are over, the first and the third applied a diff, the
\* second did not and left the program as it was, and each list holds two entries
C30_Witness ==
    /\ run_pc = "round"
    /\ Len(rounds) = 3
    /\ rounds[1].kind = "applied"
    /\ rounds[2].kind \in {"validation", "no diff", "not applied"}
    /\ rounds[3].program = rounds[2].program
    /\ rounds[3].kind = "applied"
    /\ Len(all_diff_text) = 2
    /\ Len(all_program_code) = 2

====
